---- MODULE Spec2Model ----
(***************************************************************************)
(* dj-hue: the MIDI clock consumer (main loop of cli/midi_pattern_mode.py), *)
(* the control server (control/server.py), the pattern engine              *)
(* (patterns/engine.py), the render loop, the pattern scheduler            *)
(* (patterns/strudel/scheduler.py) and the pattern transforms              *)
(* (patterns/strudel/core/pattern.py).                                     *)
(*                                                                         *)
(* Beat positions are floats in the source; here they are integers in      *)
(* units of one MIDI tick (1/24 beat), so beat_position = b + t/24 is the  *)
(* integer 24*b + t.  Thread steps are split where the source releases     *)
(* engine_state.lock: what one thread does between two accesses to shared  *)
(* state is one atomic step.                                               *)
(***************************************************************************)
EXTENDS Integers, Sequences, FiniteSets, TLC

\* ---------------------------------------------------------------- bounds
\* Highest beat_count the clock consumer is driven to.
MaxBeat == 9
\* Song-position messages carry a position in 0..MaxSongPos (sixteenth notes).
MaxSongPos == 5
\* Number of registered patterns.
NumPatterns == 2
\* Pulses counted after a sync command before the count is dropped.
MaxSincePulses == 2
\* Number of registered palettes.
NumPalettes == 2
\* Number of lights in the entertainment area.
NumLights == 2
\* Send errors counted before the count is capped.
MaxSendErrors == 1
\* Last published position (in ticks) from which the render runs take pulses.
MaxRenderTicks == 8
\* Scheduler runs: time is counted in units of 1/UnitsPerCycle cycle.
UnitsPerCycle == 4
\* Events of a pattern start at 0 .. MaxStart and last 1 .. MaxDur units.
MaxStart == 1
MaxDur == 2
\* Number of events in a pattern.
NumEvents == 2
\* Last frame time of a scheduler run.
MaxSchedTime == 5
\* Number of websocket clients.
NumClients == 2
\* Engine operations followed while one frame is being computed.
MaxCommitsPerFrame == 2
\* Slots of a light() notation; cycles 0 .. MaxCycle are queried; a pattern
\* is the notation under up to MaxTransforms transforms.
SlotsPerCycle == 2
MaxCycle == 1
MaxTransforms == 3
\* Light contexts have 1 .. MaxCtxLights lights; seq is given up to MaxSlots
\* slots.
MaxCtxLights == 5
MaxSlots == 4
\* Last frame of a scenario rendered frame by frame.
MaxFrame == 45
\* Notations have up to MaxNotation characters.
MaxNotation == 5
\* Patterns are played 1 .. MaxSpeed times as fast, and at the two speeds
\* around the largest denominator fast keeps.
MaxSpeed == 3
\* Retargeting is followed in contexts of up to MaxRtLights lights; pick is
\* given counts of 1 .. MaxPick
MaxRtLights == 3
\* The patterns directory holds NumFiles files
NumFiles == 2
MaxPick == 4

\* ------------------------------------------------------ program constants
TICKS_PER_BEAT == 24
BEATS_PER_BAR == 4
\* light("all").pick(1, hold=0.25).fast(16)
FAST == 16
\* fast: limit_denominator(1000)
MAX_DENOMINATOR == 1000

None == 0 - 1

VARIABLES
  \* main loop locals (cli/midi_pattern_mode.py main)
  tick_count, beat_count, pending_reset, ui_bar, ui_beat,
  queued_idx, target_bar, clk_pc,
  \* EngineState fields
  es_beat_position, es_beat_count, queue_mode,
  queued_pattern_index, queue_target_bar,
  \* PatternEngine: _current_pattern_index, _pattern_names, _palette_override,
  \* _active_palette, _scheduler (the object's pattern and palette)
  current_pattern_index, pattern_names, palette_override, active_palette,
  scheduler,
  \* the thread mutating the engine: where it is in the operation
  eng_pc,
  \* the renderer inside PatternEngine.compute_colors: where it is, whether
  \* the scheduler object it holds is still the engine's, that object's
  \* fields once it is not, and the pattern and palettes its frame used
  r_pc, r_live, r_obj, frame_pat, frame_pals,
  \* history: the scheduler was replaced since the renderer's None check (and
  \* had been when it was used), the configuration the last finished
  \* operation left, and those in force at some time during the frame
  replaced_since_check, r_replaced, committed, commits,
  \* history: last operation that finished writing the beat position,
  \* the last set_pattern request recorded and not yet settled, and the
  \* number of pulses processed since the last sync command
  last_op, lastReq, sinceSync

VARIABLES
  running,                 \* engine_state.running
  identify_light_index,    \* engine_state.identify_light_index
  identify_live,           \* time.time() < engine_state.identify_until
  blackout,                \* pattern_engine._blackout
  active_quick_action,     \* pattern_engine._active_quick_action: its
                           \* duration_beats in ticks, or None
  quick_action_start_beat, \* pattern_engine._quick_action_start_beat
  beat_clock_pos,          \* pattern_engine.beat_clock.beat_position
  send_errors,             \* render_loop: send_errors
  rl_pc,                   \* where the render thread is in its loop
  frame_src,               \* what the colours of the current frame come from
  frame_overlay,           \* the identify flash was laid over the frame
  last_message             \* streaming_service._last_message: the channels
                           \* with an entry in the message

VARIABLES
  sched_pattern,         \* PatternScheduler.pattern: the events it yields,
                         \* in the order the query returns them
  sched_active_events,   \* PatternScheduler._active_events: for each light
                         \* the tracked event (its number), or 0
  sched_time,            \* cycle position of the last frame, in units
  sched_emitted,         \* intensity emitted for each light in that frame
  sched_rendered,        \* history: the events rendered during their slot
  sched_colors           \* the colour emitted for each light in that frame

VARIABLES
  clients,        \* ControlServer._clients
  srv_running,    \* ControlServer._running
  conn_open,      \* the clients whose _handle_websocket coroutine is alive
  bc_pc,          \* for each task (0: _status_loop, c: the handler of client
                  \* c) where it is: "idle", "send" (inside ws.send_json of
                  \* _broadcast_status) or "dead"
  bc_snap,        \* _broadcast_status: self._clients when the for loop began
  bc_visited,     \* _broadcast_status: the clients the loop has yielded
  bc_cur,         \* _broadcast_status: ws
  dead_clients,   \* _broadcast_status: dead_clients
  last_msg,       \* for each client the kind of its last message
  reply           \* for each client the answer to its last message

VARIABLES
  event_data,     \* light(notation): what each slot of the cycle holds
  transforms,     \* the transforms applied to it, innermost first
  shuffle_seed,   \* shuffle(seed)
  blink_phase,    \* autonomous: for each light the phase its generator drew
  q_span,         \* the span of the last query
  q_haps,         \* what the last query returned
  w2_span,        \* the span of the query before, when it contains q_span
  w2_haps         \* what that query returned

VARIABLES
  gp_ctx,         \* LightContext: num_lights and the strip and lamps groups
  gp_pattern,     \* the pattern of the last query
  gp_cycle,       \* the cycle (for pick: the beat) the last query covered
  gp_haps         \* what the last query returned

VARIABLES
  notation,       \* the mini notation written so far, character by character
  parsed          \* what parse_mini gave for it: events, or the exception

VARIABLES
  sp_notation,    \* the notation of the pattern p played at another speed
  sp_k,           \* the speed k (0: no pattern yet)
  sp_span,        \* the span of the last query
  sp_plain,       \* what p returned for it
  sp_round,       \* what p.fast(k).fast(1 / k) returned for it
  sp_slow,        \* what p.slow(k) returned for it
  sp_inverse      \* what p.fast(1 / k) returned for it

VARIABLES
  main_pc,        \* where main is: in its clock loop or in its finally block
  stop_sends,     \* history: frames sent after running was set to False
  stop_pulses     \* history: pulses processed after running was set to False

VARIABLES
  lock_owner,     \* the thread that holds engine_state.lock, or "nobody"
  th_script,      \* for each thread the steps of what it is doing
  th_pos          \* for each thread the number of those steps it has taken

VARIABLES
  rt_ctx,         \* the context of the last retargeting query
  rt_value,       \* the value of the source event
  rt_op,          \* the transform applied
  rt_out          \* the values of the events returned, or the exception

VARIABLES
  fade_active     \* engine_state.fade_active

VARIABLES
  pattern_files,  \* for each .pattern file of the directory, its body
  patterns_table, \* PatternEngine._patterns: for each name, what is registered
  validated       \* the body last given to validate_pattern, and the answer

clockVars == <<tick_count, beat_count, pending_reset, ui_bar, ui_beat,
               queued_idx, target_bar, clk_pc>>
stateVars == <<es_beat_position, es_beat_count, queue_mode,
               queued_pattern_index, queue_target_bar>>
histVars == <<last_op, lastReq, sinceSync>>
engVars == <<current_pattern_index, pattern_names, palette_override,
             active_palette, scheduler>>
frameVars == <<eng_pc, r_pc, r_live, r_obj, frame_pat, frame_pals,
               replaced_since_check, r_replaced, committed, commits>>
renderVars == <<running, identify_light_index, identify_live, blackout,
                active_quick_action, quick_action_start_beat, beat_clock_pos,
                send_errors, rl_pc, frame_src, frame_overlay, last_message>>
schedVars == <<sched_pattern, sched_active_events, sched_time, sched_emitted,
               sched_rendered, sched_colors>>
serverVars == <<clients, srv_running, conn_open, bc_pc, bc_snap, bc_visited,
                bc_cur, dead_clients, last_msg, reply>>
gpVars == <<gp_ctx, gp_pattern, gp_cycle, gp_haps>>
parseVars == <<notation, parsed>>
lockVars == <<lock_owner, th_script, th_pos>>
rtVars == <<rt_ctx, rt_value, rt_op, rt_out>>
fadeVars == <<fade_active>>
loadVars == <<pattern_files, patterns_table, validated>>
shutVars == <<main_pc, stop_sends, stop_pulses>>
speedVars == <<sp_notation, sp_k, sp_span, sp_plain, sp_round, sp_slow, sp_inverse>>
patVars == <<event_data, transforms, shuffle_seed, blink_phase, q_span, q_haps,
             w2_span, w2_haps>>
vars == <<clockVars, stateVars, engVars, frameVars, histVars, renderVars,
          schedVars, serverVars, patVars, gpVars, parseVars, speedVars, shutVars, lockVars, rtVars, fadeVars, loadVars>>
\* what the clock consumer and the control server leave alone
notClock == <<sinceSync, frameVars, renderVars, schedVars, serverVars, patVars, gpVars, parseVars, speedVars, shutVars, lockVars, rtVars, fadeVars, loadVars>>
\* what the engine's operations and the renderer's frame leave alone
notEngine == <<clockVars, stateVars, histVars, renderVars, schedVars,
               serverVars, patVars, gpVars, parseVars, speedVars, shutVars, lockVars, rtVars, fadeVars, loadVars>>
notRender == <<engVars, frameVars, histVars, schedVars, serverVars, patVars, gpVars, parseVars, speedVars, shutVars, lockVars, rtVars, fadeVars, loadVars>>
notSched == <<clockVars, stateVars, engVars, frameVars, histVars, renderVars,
              serverVars, patVars, gpVars, parseVars, speedVars, shutVars, lockVars, rtVars, fadeVars, loadVars>>
notServer == <<clockVars, stateVars, engVars, frameVars, histVars, schedVars,
               patVars, gpVars, parseVars, speedVars, shutVars, lockVars, rtVars, fadeVars, loadVars>>
notPattern == <<clockVars, stateVars, engVars, frameVars, histVars, renderVars,
                schedVars, serverVars, gpVars, parseVars, speedVars, shutVars, lockVars, rtVars, fadeVars, loadVars>>
notGroups == <<clockVars, stateVars, engVars, frameVars, histVars, renderVars,
               schedVars, serverVars, patVars, parseVars, speedVars, shutVars, lockVars, rtVars, fadeVars, loadVars>>
notParser == <<clockVars, stateVars, engVars, frameVars, histVars, renderVars,
               schedVars, serverVars, patVars, gpVars, speedVars, shutVars, lockVars, rtVars, fadeVars, loadVars>>
notSpeed == <<clockVars, stateVars, engVars, frameVars, histVars, renderVars,
              schedVars, serverVars, patVars, gpVars, parseVars, shutVars, lockVars, rtVars, fadeVars, loadVars>>

\* ------------------------------------------------------------ clock maths

\* beat_position = (beat_count - 1) + tick_count / TICKS_PER_BEAT, in ticks
BeatPosition(bc, tc) == (bc - 1) * TICKS_PER_BEAT + tc

\* mutant: the beat completes one pulse late
BeatComplete_Late(tc) == tc > TICKS_PER_BEAT

\* tick_count >= TICKS_PER_BEAT after the increment
BeatComplete(tc) == tc >= TICKS_PER_BEAT

\* mutant: the completed beat is not counted
NextBeatCount_Stuck(bc) == bc

\* beat_count += 1 on a completed beat
NextBeatCount(bc) == bc + 1

\* ui_beat = ((beat_count - 1) % 4) + 1 ; ui_bar = (beat_count - 1) // 4 + 1
UiBeat(bc) == ((bc - 1) % BEATS_PER_BAR) + 1
UiBar(bc) == ((bc - 1) \div BEATS_PER_BAR) + 1

\* current_bar = int(beat_position // 4) + 1
CurrentBar(pos) == (pos \div (BEATS_PER_BAR * TICKS_PER_BEAT)) + 1

\* target_bar = current_bar + queue_mode
TargetBar(pos, q) == CurrentBar(pos) + q

\* ui_bar >= target_bar
QueueDue(bar, target) == bar >= target

\* history helper: the pulses-since-sync count after one more pulse
CountPulse(n) == IF n = None \/ n >= MaxSincePulses THEN None ELSE n + 1

\* ------------------------------------------------------- pattern engine
\* Patterns are known by name (1, 2, ..); palettes are 1..NumPalettes.

\* the pattern tables a load or reload can produce: distinct names in any order
Tables ==
  UNION {{t \in [1..n -> 1..NumPatterns] :
            \A i, j \in 1..n : i # j => t[i] # t[j]} : n \in 0..NumPatterns}

\* _pattern_default_palettes: the last pattern declares no palette
DefaultPalette(name) == IF name < NumPatterns THEN name ELSE None

\* _scheduler is None
NoSched == [pat |-> None, pal |-> None, tracking |-> FALSE]

\* a mutation of _update_active_palette: the pattern's default wins over the
\* override
ActivePaletteFor_DefaultFirst(names, idx, override) ==
  IF Len(names) > 0 /\ DefaultPalette(names[idx + 1]) # None
  THEN DefaultPalette(names[idx + 1])
  ELSE override

\* get_current_pattern_name, then _pattern_default_palettes.get(..)
\* (lines 309-319 of _update_active_palette)
ActivePaletteFor(names, idx, override) ==
  IF override # None THEN override
  ELSE IF Len(names) = 0 THEN None
  ELSE DefaultPalette(names[idx + 1])

\* mutant: the scheduler in use keeps the palette it was built with
WithPalette_Kept(s, pal) == s

\* if self._scheduler: self._scheduler.set_palette(palette)
WithPalette(s, pal) == IF s = NoSched THEN s ELSE [s EXCEPT !.pal = pal]

\* _rebuild_scheduler: a new PatternScheduler for current_pattern, or None
BuildScheduler(names, idx, pal) ==
  IF Len(names) > 0 /\ 0 <= idx /\ idx < Len(names)
  THEN [pat |-> names[idx + 1], pal |-> pal, tracking |-> FALSE]
  ELSE NoSched

\* a mutation of the reload: the selection is not restored
RestoredIndex_First(names, name) == 0

\* self._pattern_names.index(current_name) if it is still there, else 0
RestoredIndex(names, name) ==
  IF \E i \in 1..Len(names) : names[i] = name
  THEN (CHOOSE i \in 1..Len(names) : names[i] = name) - 1
  ELSE 0

\* ------------------------------------------------------------------ Init

\* A JSON value received as the "index" of identify_light: an integer, or
\* something else (a string); NoIndex is Python's None.
NoIndex == [kind |-> "none", v |-> 0]
IntIndex(i) == [kind |-> "int", v |-> i]
StrIndex == [kind |-> "str", v |-> 0]
IndexValues == {IntIndex(0), IntIndex(NumLights), StrIndex}

\* duration_beats of a flash, in ticks: half a beat from the keyboard and by
\* default from the server, or the duration the server was sent
FlashDefault == TICKS_PER_BEAT \div 2
FlashDurations == {TICKS_PER_BEAT \div 4, FlashDefault}

\* ----------------------------------------------- scheduler: intensities
Lights == 0..(NumLights - 1)

\* Intensities are percentages; a product of two is in units of 1/10000.
FULL == 100
\* the perceptible threshold 0.01, as a product
PERCEPTIBLE == (FULL * FULL) \div 100

Max(a, b) == IF a >= b THEN a ELSE b

\* an event without envelope
NoEnvelope ==
  [has |-> FALSE, attack |-> 0, decay |-> 0, sustain |-> FULL,
   per_cycle |-> UnitsPerCycle]
\* envelopes: attack and decay in units of 1 / per_cycle cycle, sustain a
\* percentage
Envelopes ==
  [has : {TRUE}, attack : {0, 1}, decay : {2, 4}, sustain : {0, 60},
   per_cycle : {UnitsPerCycle}]
\* an event (hap) of a pattern: its light, its whole span [start, end), its
\* base intensity and its envelope
Events ==
  {h \in [light : Lights, start : 0..MaxStart, end : 1..(MaxStart + MaxDur),
          intensity : {30, FULL}, envelope : {NoEnvelope} \cup Envelopes] :
     h.end > h.start /\ h.end - h.start <= MaxDur}
Patterns == [1..NumEvents -> Events]

\* Envelope.get_intensity(time_in_event), as a percentage
EnvelopeIntensity(env, t) ==
  IF t < 0 THEN 0
  ELSE IF t < env.attack
  THEN IF env.attack <= 0 THEN FULL
       ELSE IF env.attack * 20 > env.per_cycle
       THEN Max(FULL \div 10, (FULL * t) \div env.attack)
       ELSE FULL
  ELSE IF t - env.attack < env.decay
  THEN IF env.decay <= 0 THEN env.sustain
       ELSE FULL - ((t - env.attack) * (FULL - env.sustain)) \div env.decay
  ELSE env.sustain

\* intensity = hap.value.intensity * envelope_intensity (no modulator)
HapIntensity(h, t) ==
  h.intensity * (IF h.envelope.has THEN EnvelopeIntensity(h.envelope, t - h.start)
                 ELSE FULL)

\* event_span.contains(cycle_position)
Contains(h, t) == h.start <= t /\ t < h.end

\* current_time < envelope_end_time and time_since_event_start >= 0
TailActive(h, t) ==
  /\ t < h.start + h.envelope.attack + h.envelope.decay
  /\ t - h.start >= 0

\* the largest number of a set of naturals, 0 for the empty set
MaxOf(S) == IF S = {} THEN 0 ELSE CHOOSE m \in S : \A x \in S : x <= m

\* first pass: the events of the query that contain t, target the light and
\* are perceptible
Rendered(pat, l, t) ==
  {i \in DOMAIN pat : /\ pat[i].light = l
                       /\ Contains(pat[i], t)
                       /\ HapIntensity(pat[i], t) >= PERCEPTIBLE}

\* first pass: _active_events[light_id] = ActiveEvent(hap, event_start), the
\* last rendered event overwriting the entry
TrackedAfterQuery(pat, tracked, l, t) ==
  IF Rendered(pat, l, t) = {} THEN tracked[l] ELSE MaxOf(Rendered(pat, l, t))

\* second pass: the tracked event of a light the first pass left dark
\* continues if its envelope has not ended and it is perceptible
Continues(pat, i, t) ==
  /\ i # 0
  /\ pat[i].envelope.has
  /\ TailActive(pat[i], t)
  /\ HapIntensity(pat[i], t) >= PERCEPTIBLE

\* PatternScheduler.compute_colors: the intensity emitted for light l
EmittedIntensity(pat, tracked, l, t) ==
  IF Rendered(pat, l, t) # {}
  THEN MaxOf({HapIntensity(pat[i], t) : i \in Rendered(pat, l, t)})
  ELSE IF Continues(pat, TrackedAfterQuery(pat, tracked, l, t), t)
  THEN HapIntensity(pat[TrackedAfterQuery(pat, tracked, l, t)], t)
  ELSE 0

\* PatternScheduler.compute_colors: _active_events after the frame
TrackedAfterFrame(pat, tracked, l, t) ==
  IF Rendered(pat, l, t) # {}
       \/ Continues(pat, TrackedAfterQuery(pat, tracked, l, t), t)
  THEN TrackedAfterQuery(pat, tracked, l, t)
  ELSE 0

\* ------------------------------------- scheduler: envelopes and colours
\* Scenarios are rendered at ten frames a beat: times are in units of
\* 1 / FrameUnits cycle (cycle_beats = 4).
FrameUnits == 10 * BEATS_PER_BAR
ScenarioCycles == (MaxFrame \div FrameUnits) + 1

\* envelope(attack=0.05, decay=1.0, sustain=0).color(flash="white", fade="red")
FlashFade ==
  [has |-> TRUE, attack |-> FrameUnits \div 20, decay |-> FrameUnits,
   sustain |-> 0, release |-> 0, per_cycle |-> FrameUnits,
   flash_color |-> "white", fade_color |-> "red"]
\* envelopes with a release, without colours
ReleaseEnvelopes ==
  [has : {TRUE}, attack : {0}, decay : {0, 30}, sustain : {50, FULL},
   release : {5, 10}, per_cycle : {FrameUnits}, flash_color : {"none"},
   fade_color : {"none"}]

\* the events of light("all").envelope(..) cycle after cycle, one for each
\* light of the context
AllEvents(env) ==
  [k \in 1..(ScenarioCycles * NumLights) |->
     [light |-> (k - 1) % NumLights,
      start |-> ((k - 1) \div NumLights) * FrameUnits,
      end |-> (((k - 1) \div NumLights) + 1) * FrameUnits,
      intensity |-> FULL, envelope |-> env, color |-> "default"]]
\* the events of light("0 ~").envelope(..) cycle after cycle
HalfEvents(env) ==
  [k \in 1..ScenarioCycles |->
     [light |-> 0, start |-> (k - 1) * FrameUnits,
      end |-> (k - 1) * FrameUnits + FrameUnits \div 2,
      intensity |-> FULL, envelope |-> env, color |-> "default"]]
ScenarioPatterns ==
  {AllEvents(FlashFade)} \cup {HalfEvents(env) : env \in ReleaseEnvelopes}

\* Envelope.get_release_intensity(time_since_release), as a percentage
ReleaseIntensity(env, t) ==
  IF env.release <= 0 THEN 0
  ELSE IF t >= env.release THEN 0
  ELSE (env.sustain * (env.release - t)) \div env.release

\* PatternScheduler._get_envelope_color; "mix" is interpolate_hsv between
\* the flash and the fade colour
EnvelopeColor(env, t, base_color) ==
  IF t < env.attack
  THEN IF env.flash_color # "none" THEN env.flash_color
       ELSE IF env.fade_color # "none" THEN env.fade_color ELSE base_color
  ELSE IF env.fade_color # "none"
  THEN IF env.flash_color # "none" /\ env.decay > 0 /\ t - env.attack < env.decay
       THEN IF t = env.attack THEN env.flash_color ELSE "mix"
       ELSE env.fade_color
  ELSE IF env.flash_color # "none" THEN env.flash_color ELSE base_color

HapColor(h, t) ==
  IF h.envelope.has THEN EnvelopeColor(h.envelope, t - h.start, h.color)
  ELSE h.color

\* PatternScheduler.compute_colors: the colour emitted for light l; of the
\* events of the first pass the first of the brightest gives the colour
EmittedColor(pat, tracked, l, t) ==
  IF Rendered(pat, l, t) # {}
  THEN LET brightest ==
             {i \in Rendered(pat, l, t) :
                HapIntensity(pat[i], t) = EmittedIntensity(pat, tracked, l, t)}
       IN  HapColor(pat[CHOOSE i \in brightest : \A j \in brightest : i <= j], t)
  ELSE IF Continues(pat, TrackedAfterQuery(pat, tracked, l, t), t)
  THEN HapColor(pat[TrackedAfterQuery(pat, tracked, l, t)], t)
  ELSE "black"

\* ------------------------------------------------ control server: tasks
Clients == 1..NumClients
\* the coroutines that run _broadcast_status: _status_loop (0) and the
\* connection handler of each client
StatusLoop == 0
Tasks == {StatusLoop} \cup Clients

\* kinds of text message a client sends
ProtocolErrors == {"malformed", "unknown_type", "missing_type", "missing_field"}
MessageKinds == ProtocolErrors \cup {"toggle_blackout"}

\* ------------------------------------------- patterns: spans and events
\* Times are Fractions of a cycle in the source; here they are integers in
\* units of half a slot of the notation, so that fast(2) and slow(2) stay on
\* the grid.
CycleLen == 2 * SlotsPerCycle
SlotLen == CycleLen \div SlotsPerCycle
Rest == None

Min(a, b) == IF a <= b THEN a ELSE b

TimeSpan(start, end) == [start |-> start, end |-> end]
\* what TimeSpan.intersection returns for spans that do not overlap
NoSpan == TimeSpan(0, 0)
Intersection(a, b) ==
  IF Max(a.start, b.start) < Min(a.end, b.end)
  THEN TimeSpan(Max(a.start, b.start), Min(a.end, b.end))
  ELSE NoSpan
SpanShift(s, offset) == TimeSpan(s.start + offset, s.end + offset)
\* factor is the Fraction [num / den]
SpanScale(s, factor) ==
  TimeSpan((s.start * factor.num) \div factor.den,
           (s.end * factor.num) \div factor.den)
Inverse(factor) == [num |-> factor.den, den |-> factor.num]

LightHap(whole, part, value) == [whole |-> whole, part |-> part, value |-> value]
HapShift(h, offset) ==
  LightHap(SpanShift(h.whole, offset), SpanShift(h.part, offset), h.value)
HapScale(h, factor) ==
  LightHap(SpanScale(h.whole, Inverse(factor)),
           SpanScale(h.part, Inverse(factor)), h.value)
WithPart(h, part) == LightHap(h.whole, part, h.value)

\* int(t) of a time: the cycle number, truncated towards zero
IntCycle(t) ==
  IF t >= 0 THEN t \div CycleLen ELSE 0 - ((0 - t) \div CycleLen)
CycleSpan(cycle) == TimeSpan(cycle * CycleLen, (cycle + 1) * CycleLen)

MapHaps(haps, F(_)) == [i \in 1..Len(haps) |-> F(haps[i])]
Overlapping(h) == h.part # NoSpan
\* the events of haps that reach into span, with part cut down to it
FilterToSpan(haps, span) ==
  LET Cut(h) == WithPart(h, Intersection(h.part, span))
  IN  SelectSeq(MapHaps(haps, Cut), Overlapping)

\* ------------------------------------------------------- patterns: light
\* the events of one cycle of the notation that intersect span
LightCycle(cycle, span) ==
  LET Whole(i) == TimeSpan(cycle * CycleLen + (i - 1) * SlotLen,
                           cycle * CycleLen + i * SlotLen)
      Slot(i) == LightHap(Whole(i), Intersection(Whole(i), span), event_data[i])
      Sounding(h) == h.value # Rest /\ Overlapping(h)
  IN  SelectSeq([i \in 1..Len(event_data) |-> Slot(i)], Sounding)

RECURSIVE LightFrom(_, _, _)
LightFrom(cycle, cycle_end, span) ==
  IF cycle >= cycle_end THEN <<>>
  ELSE LightCycle(cycle, span) \o LightFrom(cycle + 1, cycle_end, span)

query_light(span) ==
  LightFrom(IntCycle(span.start), IntCycle(span.end) + 1, span)

\* ---------------------------------------------------- patterns: shuffle
\* random.Random(key): the generator is a fixed function of its seed; this
\* one stands for it.  RandBelow is its i-th draw, below i + 1.
RandBelow(key, i) == (2 * key) % (i + 1)

Swap(values, i, j) == [values EXCEPT ![i] = values[j], ![j] = values[i]]

\* rng.shuffle(values): for i in reversed(range(1, len)): swap i, randbelow(i+1)
RECURSIVE ShuffleFrom(_, _, _)
ShuffleFrom(values, key, i) ==
  IF i < 1 THEN values
  ELSE ShuffleFrom(Swap(values, i + 1, RandBelow(key, i) + 1), key, i - 1)

RngShuffle(values, key) == ShuffleFrom(values, key, Len(values) - 1)

ShuffleKey(cycle, seed) == IF seed = None THEN cycle ELSE seed + cycle

\* cycle_haps.sort(key = (whole start, light_id)): a stable sort
KeyLE(a, b) ==
  \/ a.whole.start < b.whole.start
  \/ a.whole.start = b.whole.start /\ a.value <= b.value
RECURSIVE SortHaps(_)
SortHaps(haps) ==
  IF haps = <<>> THEN <<>>
  ELSE LET sorted == SortHaps(SubSeq(haps, 1, Len(haps) - 1))
           h == haps[Len(haps)]
           k == Cardinality({i \in 1..Len(sorted) : KeyLE(sorted[i], h)})
       IN  SubSeq(sorted, 1, k) \o <<h>> \o SubSeq(sorted, k + 1, Len(sorted))

\* one cycle of query_shuffle, given what the full-cycle query returned
ShuffleCycle(cycle_haps, cycle, span) ==
  IF Len(cycle_haps) <= 1 THEN FilterToSpan(cycle_haps, span)
  ELSE LET timings == SortHaps(cycle_haps)
           values == RngShuffle([i \in 1..Len(timings) |-> timings[i].value],
                                ShuffleKey(cycle, shuffle_seed))
           Rebuilt(i) == LightHap(timings[i].whole, timings[i].part, values[i])
       IN  FilterToSpan([i \in 1..Len(timings) |-> Rebuilt(i)], span)

\* ------------------------------------------------ patterns: autonomous
BlinkPeriod == 2 * SlotLen
OnDuration == BlinkPeriod \div 2

\* the lights of resolved_haps, in the order the dict holds them
RECURSIVE ResolvedLights(_)
ResolvedLights(haps) ==
  IF haps = <<>> THEN <<>>
  ELSE LET before == ResolvedLights(SubSeq(haps, 1, Len(haps) - 1))
           l == haps[Len(haps)].value
       IN  IF \E i \in 1..Len(before) : before[i] = l THEN before
           ELSE Append(before, l)

\* the while loop of one light: its blinks from current_time on
RECURSIVE Blinks(_, _, _)
Blinks(light_id, current_time, span) ==
  IF current_time >= span.end + BlinkPeriod THEN <<>>
  ELSE LET event_span == TimeSpan(current_time, current_time + OnDuration)
           hap == LightHap(event_span, Intersection(event_span, span), light_id)
       IN  (IF Overlapping(hap) THEN <<hap>> ELSE <<>>)
             \o Blinks(light_id, current_time + BlinkPeriod, span)

RECURSIVE BlinksOf(_, _)
BlinksOf(lights, span) ==
  IF lights = <<>> THEN <<>>
  ELSE Blinks(Head(lights),
              (IntCycle(span.start) - 1) * CycleLen + blink_phase[Head(lights)],
              span)
         \o BlinksOf(Tail(lights), span)

\* ------------------------------------------------------ patterns: rev
Mirror(t, cycle) == cycle * CycleLen + (CycleLen - (t - cycle * CycleLen))
Reversed(h) ==
  LightHap(TimeSpan(Mirror(h.whole.end, IntCycle(h.part.start)),
                    Mirror(h.whole.start, IntCycle(h.part.start))),
           TimeSpan(Mirror(h.part.end, IntCycle(h.part.start)),
                    Mirror(h.part.start, IntCycle(h.part.start))),
           h.value)

\* ----------------------------------------------------- patterns: query
Transforms ==
  {"rev", "fast", "slow", "early", "late", "shuffle", "autonomous", "zone"}
Factor(transform) ==
  IF transform = "fast" THEN [num |-> 2, den |-> 1] ELSE [num |-> 1, den |-> 2]
Offset(transform) == IF transform = "early" THEN SlotLen ELSE 0 - SlotLen
\* ctx.resolve_zone: the lights of the target zone
ZoneLights == {0}

\* the query function of the pattern made of the first n transforms
RECURSIVE Query(_, _), QueryShuffle(_, _, _, _)
Query(n, span) ==
  IF n = 0 THEN query_light(span)
  ELSE LET t == transforms[n]
           InZone(h) == h.value \in ZoneLights
           Compress(h) == HapScale(h, Factor(t))
           Back(h) == HapShift(h, 0 - Offset(t))
       IN  CASE t = "fast" \/ t = "slow" ->
                  MapHaps(Query(n - 1, SpanScale(span, Factor(t))), Compress)
             [] t = "early" \/ t = "late" ->
                  MapHaps(Query(n - 1, SpanShift(span, Offset(t))), Back)
             [] t = "rev" -> MapHaps(Query(n - 1, span), Reversed)
             [] t = "shuffle" ->
                  QueryShuffle(n, IntCycle(span.start), IntCycle(span.end) + 1,
                               span)
             [] t = "autonomous" ->
                  BlinksOf(ResolvedLights(Query(n - 1, span)), span)
             [] t = "zone" -> SelectSeq(Query(n - 1, span), InZone)

QueryShuffle(n, cycle, cycle_end, span) ==
  IF cycle >= cycle_end THEN <<>>
  ELSE ShuffleCycle(Query(n - 1, CycleSpan(cycle)), cycle, span)
         \o QueryShuffle(n, cycle + 1, cycle_end, span)

\* the spans a query is made with: slot to slot within one cycle
Windows ==
  {TimeSpan(c * CycleLen + a * SlotLen, c * CycleLen + b * SlotLen) :
     <<c, a, b>> \in {x \in (0..MaxCycle) \X (0..SlotsPerCycle) \X (0..SlotsPerCycle) :
                        x[2] < x[3]}}
Within(w1, w2) == w2.start <= w1.start /\ w1.end <= w2.end

\* chains of transforms that stay on the grid: at most one change of speed
\* in each direction
OnGrid(ts) ==
  \A i, j \in 1..Len(ts) : (i # j /\ ts[i] \in {"fast", "slow"}) => ts[i] # ts[j]
Chains ==
  {ts \in UNION {[1..n -> Transforms] : n \in 0..MaxTransforms} : OnGrid(ts)}
Seeds == {None, 1}
Phases == {0, SlotLen}

\* ------------------------------------------------- mini notation: parser

\* The characters notations are made of here: a lower and an upper case
\* letter, two digits, the rest, the repeat operator, the dot and the space.
Chars == {"a", "A", "0", "2", "~", "*", ".", " "}

Digits == <<"0", "1", "2", "3", "4", "5", "6", "7", "8", "9">>
\* str.isspace, str.isdigit, str.isalpha, str.isalnum and str.lower, on the
\* characters of Chars
IsSpace(c) == c = " "
IsDigit(c) == \E d \in DOMAIN Digits : Digits[d] = c
IsAlpha(c) == c \in {"a", "A"}
IsWordChar(c) == IsAlpha(c) \/ IsDigit(c) \/ c = "_"
IsCountChar(c) == IsDigit(c) \/ c = "."
Lower(c) == IF c = "A" THEN "a" ELSE c
LowerToken(t) == [k \in DOMAIN t |-> Lower(t[k])]
DigitVal(c) == (CHOOSE d \in DOMAIN Digits : Digits[d] = c) - 1

\* the first index from i on whose character is not a P (Len(s) + 1: none)
Scan(P(_), s, i) ==
  CHOOSE j \in i..(Len(s) + 1) :
    /\ \A k \in i..(j - 1) : P(s[k])
    /\ j > Len(s) \/ ~P(s[j])

RECURSIVE LStrip(_)
LStrip(s) == IF s # <<>> /\ IsSpace(Head(s)) THEN LStrip(Tail(s)) ELSE s
RECURSIVE RStrip(_)
RStrip(s) ==
  IF s # <<>> /\ IsSpace(s[Len(s)]) THEN RStrip(SubSeq(s, 1, Len(s) - 1)) ELSE s
Strip(s) == RStrip(LStrip(s))

\* the token ' '
SPACE == <<" ">>

\* the while loop of tokenize
RECURSIVE TokenizeFrom(_, _, _)
TokenizeFrom(s, i, tokens) ==
  IF i > Len(s) THEN tokens
  ELSE IF IsSpace(s[i]) THEN
    TokenizeFrom(s, Scan(IsSpace, s, i),
                 IF tokens # <<>> /\ tokens[Len(tokens)] # SPACE
                   THEN Append(tokens, SPACE) ELSE tokens)
  ELSE IF s[i] = "~" THEN TokenizeFrom(s, i + 1, Append(tokens, <<"~">>))
  ELSE IF s[i] \in {"*", "/"} /\ i < Len(s) THEN
    LET j == Scan(IsCountChar, s, i + 1) IN
      IF j > i + 1 THEN TokenizeFrom(s, j, Append(tokens, SubSeq(s, i, j - 1)))
      ELSE TokenizeFrom(s, i + 1, Append(tokens, <<s[i]>>))
  ELSE IF IsDigit(s[i]) THEN
    LET j == Scan(IsDigit, s, i) IN
      TokenizeFrom(s, j, Append(tokens, SubSeq(s, i, j - 1)))
  ELSE IF IsAlpha(s[i]) \/ s[i] = "_" THEN
    LET j == Scan(IsWordChar, s, i) IN
      TokenizeFrom(s, j, Append(tokens, SubSeq(s, i, j - 1)))
  ELSE TokenizeFrom(s, i + 1, tokens)

tokenize(str) ==
  LET tokens == TokenizeFrom(Strip(str), 1, <<>>) IN
    IF tokens # <<>> /\ tokens[Len(tokens)] = SPACE
      THEN SubSeq(tokens, 1, Len(tokens) - 1) ELSE tokens

RECURSIVE SplitFrom(_, _, _)
SplitFrom(tokens, elements, current) ==
  LET closed == IF current # <<>> THEN Append(elements, current) ELSE elements IN
    IF tokens = <<>> THEN closed
    ELSE IF Head(tokens) = SPACE THEN SplitFrom(Tail(tokens), closed, <<>>)
    ELSE SplitFrom(Tail(tokens), elements, Append(current, Head(tokens)))

split_by_space(tokens) == SplitFrom(tokens, <<>>, <<>>)

\* int(text) succeeds on a run of digits; float(text) on digits with at most
\* one dot; int(float(text)) is then the number before the dot.
IsInt(text) == text # <<>> /\ \A k \in DOMAIN text : IsDigit(text[k])
IsFloat(text) ==
  /\ \A k \in DOMAIN text : IsCountChar(text[k])
  /\ \E k \in DOMAIN text : IsDigit(text[k])
  /\ Cardinality({k \in DOMAIN text : text[k] = "."}) <= 1
RECURSIVE IntOf(_)
IntOf(text) ==
  IF text = <<>> THEN 0
  ELSE 10 * IntOf(SubSeq(text, 1, Len(text) - 1)) + DigitVal(text[Len(text)])
IntOfFloat(text) == IntOf(SubSeq(text, 1, Scan(IsDigit, text, 1) - 1))

\* fractions.Fraction: always in lowest terms
RECURSIVE GCD(_, _)
GCD(a, b) == IF b = 0 THEN a ELSE GCD(b, a % b)
Fraction(n, d) == LET g == GCD(n, d) IN [num |-> n \div g, den |-> d \div g]
FracAdd(x, y) == Fraction(x.num * y.den + y.num * x.den, x.den * y.den)
FracSub(x, y) == Fraction(x.num * y.den - y.num * x.den, x.den * y.den)
FracTimes(x, k) == Fraction(x.num * k, x.den)
FracOver(x, k) == Fraction(x.num, x.den * k)

NoGroup == <<>>
ParsedEvent(start, end, light_id, group, is_rest) ==
  [start |-> start, end |-> end, light_id |-> light_id, group |-> group,
   is_rest |-> is_rest]

\* what a call gives: the list it returns, or the exception it raises
Returns(events) == [error |-> "none", events |-> events]
Raises(exception) == [error |-> exception, events |-> <<>>]
NotParsed == [error |-> "unparsed", events |-> <<>>]

parse_element(tokens, start, end) ==
  LET value_token == tokens[1]
      modifier == IF Len(tokens) > 1 THEN tokens[2] ELSE <<>>
      is_rest == value_token = <<"~">>
      light_id == IF ~is_rest /\ IsInt(value_token) THEN IntOf(value_token)
                  ELSE None
      group == IF is_rest \/ IsInt(value_token) THEN NoGroup
               ELSE LowerToken(value_token)
      single == <<ParsedEvent(start, end, light_id, group, is_rest)>>
  IN
    IF modifier # <<>> /\ modifier[1] = "*" THEN
      LET count == Tail(modifier) IN
        IF ~IsInt(count) /\ ~IsFloat(count) THEN Raises("ValueError")
        ELSE
          LET repeat_count == IF IsInt(count) THEN IntOf(count)
                              ELSE IntOfFloat(count)
              sub_duration == FracOver(FracSub(end, start), repeat_count)
          IN
            IF repeat_count > 0 THEN
              Returns([i \in 1..repeat_count |->
                LET sub_start == FracAdd(start, FracTimes(sub_duration, i - 1))
                IN ParsedEvent(sub_start, FracAdd(sub_start, sub_duration),
                               light_id, group, is_rest)])
            ELSE Returns(single)
    ELSE Returns(single)

\* mutant: every element counts as one slot
ElementSlots_One(element) == 1

\* the slots an element counts for (parse_sequence, first loop)
ElementSlots(element) ==
  IF Len(element) > 1 /\ element[2][1] = "*" THEN
    LET count == Tail(element[2]) IN
      IF IsInt(count) THEN IntOf(count)
      ELSE IF IsFloat(count) THEN IntOfFloat(count)
      ELSE 1
  ELSE 1

RECURSIVE SumSlots(_)
SumSlots(slots) ==
  IF slots = <<>> THEN 0 ELSE Head(slots) + SumSlots(Tail(slots))

\* the second loop of parse_sequence, from element k on
RECURSIVE ParseElements(_, _, _, _, _, _, _)
ParseElements(elements, element_slots, k, current_slot, start, slot_duration,
              events) ==
  IF k > Len(elements) THEN Returns(events)
  ELSE
    LET slot_start == FracAdd(start, FracTimes(slot_duration, current_slot))
        slot_end == FracAdd(slot_start,
                            FracTimes(slot_duration, element_slots[k]))
        r == parse_element(elements[k], slot_start, slot_end)
    IN
      IF r.error # "none" THEN r
      ELSE ParseElements(elements, element_slots, k + 1,
                         current_slot + element_slots[k], start, slot_duration,
                         events \o r.events)

parse_sequence(tokens, start, end) ==
  LET elements == split_by_space(tokens)
      element_slots == [k \in DOMAIN elements |-> ElementSlots(elements[k])]
      total_slots == SumSlots(element_slots)
  IN
    IF elements = <<>> THEN Returns(<<>>)
    ELSE IF total_slots = 0 THEN Raises("ZeroDivisionError")
    ELSE ParseElements(elements, element_slots, 1, 0, start,
                       FracOver(FracSub(end, start), total_slots), <<>>)

parse_mini(str) ==
  LET tokens == tokenize(str) IN
    IF tokens = <<>> THEN Returns(<<>>)
    ELSE parse_sequence(tokens, Fraction(0, 1), Fraction(1, 1))

\* ------------------------------------------ patterns: fast and slow, exact
\* Times are Fractions of a cycle, as in the source.

Abs(i) == IF i < 0 THEN 0 - i ELSE i
FracLess(x, y) == x.num * y.den < y.num * x.den
FracMul(x, y) == Fraction(x.num * y.num, x.den * y.den)
FracDistance(x, y) ==
  Fraction(Abs(x.num * y.den - y.num * x.den), x.den * y.den)
\* int(x), for x >= 0
FracInt(x) == x.num \div x.den

\* Fraction.limit_denominator: the loop over the continued fraction of n / d
RECURSIVE LimitLoop(_, _, _, _, _, _, _)
LimitLoop(p0, q0, p1, q1, n, d, max_denominator) ==
  LET a == n \div d
      q2 == q0 + a * q1
  IN  IF q2 > max_denominator THEN [p0 |-> p0, q0 |-> q0, p1 |-> p1, q1 |-> q1]
      ELSE LimitLoop(p1, q1, p0 + a * p1, q2, d, n - a * d, max_denominator)

LimitDenominator(x, max_denominator) ==
  IF x.den <= max_denominator THEN x
  ELSE
    LET c == LimitLoop(0, 1, 1, 0, x.num, x.den, max_denominator)
        k == (max_denominator - c.q0) \div c.q1
        bound1 == Fraction(c.p0 + k * c.p1, c.q0 + k * c.q1)
        bound2 == Fraction(c.p1, c.q1)
    IN  IF ~FracLess(FracDistance(bound1, x), FracDistance(bound2, x))
        THEN bound2 ELSE bound1

\* factor_frac = Fraction(factor).limit_denominator(1000)
FactorFrac(factor) == LimitDenominator(factor, MAX_DENOMINATOR)

Span(start, end) == [start |-> start, end |-> end]
ScaleSpan(s, factor) == Span(FracMul(s.start, factor), FracMul(s.end, factor))
\* TimeSpan.intersection; None is the span that ends where it starts
SpanOverlap(a, b) ==
  LET new_start == IF FracLess(a.start, b.start) THEN b.start ELSE a.start
      new_end == IF FracLess(a.end, b.end) THEN a.end ELSE b.end
  IN  IF FracLess(new_start, new_end) THEN Span(new_start, new_end)
      ELSE Span(new_start, new_start)
IsNoSpan(s) == s.start = s.end

\* LightHap.scale: times are divided by factor
ScaleHap(h, factor) ==
  LET inverse == [num |-> factor.den, den |-> factor.num] IN
    [whole |-> ScaleSpan(h.whole, inverse), part |-> ScaleSpan(h.part, inverse),
     value |-> h.value]

\* parse_to_query_data: the events of the notation that are no rests
QueryData(str) ==
  LET NoRest(e) == ~e.is_rest IN SelectSeq(parse_mini(str).events, NoRest)

\* query_light on exact times: the events of one cycle that intersect span
QueryLightCycle(data, cycle, span) ==
  LET cycle_offset == Fraction(cycle, 1)
      Hap(e) == LET whole == Span(FracAdd(e.start, cycle_offset),
                                  FracAdd(e.end, cycle_offset))
                IN  [whole |-> whole, part |-> SpanOverlap(whole, span),
                     value |-> [light_id |-> e.light_id, group |-> e.group]]
      Sounding(h) == ~IsNoSpan(h.part)
  IN  SelectSeq([i \in 1..Len(data) |-> Hap(data[i])], Sounding)

RECURSIVE QueryLightFrom(_, _, _, _)
QueryLightFrom(data, cycle, cycle_end, span) ==
  IF cycle >= cycle_end THEN <<>>
  ELSE QueryLightCycle(data, cycle, span)
         \o QueryLightFrom(data, cycle + 1, cycle_end, span)

\* light(notation).fast(f1).fast(f2)...query(span): factors lists the
\* factors innermost first, n of them are applied
RECURSIVE query_fast(_, _, _, _)
query_fast(data, factors, n, span) ==
  IF n = 0
  THEN QueryLightFrom(data, FracInt(span.start), FracInt(span.end) + 1, span)
  ELSE LET factor_frac == FactorFrac(factors[n])
           haps == query_fast(data, factors, n - 1, ScaleSpan(span, factor_frac))
       IN  [i \in 1..Len(haps) |-> ScaleHap(haps[i], factor_frac)]

\* slow(factor) for an integer factor: fast(Fraction(1, factor))
SlowFactor(factor) == Fraction(1, factor)
\* the float 1 / k handed to fast: Fraction(1 / k) is within 2^-53 of 1 / k
\* and limit_denominator takes both to the same Fraction for the k used here
FloatInverse(k) == Fraction(1, k)

\* the notations patterns are made of, and the speeds they are played at
Notations ==
  {<<"0">>, <<"0", " ", "2">>, <<"~", " ", "0">>, <<"0", "*", "2", " ", "a">>}
Speeds == (1..MaxSpeed) \cup {MAX_DENOMINATOR, MAX_DENOMINATOR + 1}
\* query windows: from half cycle to half cycle
SpeedWindows ==
  {Span(Fraction(a, 2), Fraction(b, 2)) :
     <<a, b>> \in {x \in (0..(2 * MaxCycle + 2)) \X (0..(2 * MaxCycle + 2)) :
                     x[1] < x[2]}}
NoWindow == Span(Fraction(0, 1), Fraction(0, 1))

\* ------------------------------------------- patterns on groups: seq
\* list(range(n))
Range0(n) == [i \in 1..n |-> i - 1]
LightContext(num_lights, strip, lamps) ==
  [num_lights |-> num_lights, strip |-> strip, lamps |-> lamps]
NoContext == LightContext(0, <<>>, <<>>)
\* contexts without physical groups, and contexts whose lights are divided
\* into a strip and lamps
Contexts ==
  {LightContext(n, <<>>, <<>>) : n \in 1..MaxCtxLights} \cup
  {LightContext(x[1], SubSeq(Range0(x[1]), 1, x[2]),
                SubSeq(Range0(x[1]), x[2] + 1, x[1])) :
     x \in {y \in (1..MaxCtxLights) \X (1..MaxCtxLights) : y[2] <= y[1]}}

\* ctx.resolve_group(name); no context here has an ambient group
ResolveGroup(context, name) ==
  CASE name = "all" -> Range0(context.num_lights)
    [] name = "strip" -> context.strip
    [] name = "lamps" -> context.lamps
    [] OTHER -> <<>>

NonEmpty(lights) == lights # <<>>
\* query_seq: physical_groups (per_group = True)
PhysicalGroups(context, group_name) ==
  IF group_name = "all"
  THEN LET zoned == SelectSeq(<<ResolveGroup(context, "strip"),
                                ResolveGroup(context, "lamps"),
                                ResolveGroup(context, "ambient")>>, NonEmpty)
       IN  IF zoned = <<>> THEN <<ResolveGroup(context, "all")>> ELSE zoned
  ELSE <<ResolveGroup(context, group_name)>>

RECURSIVE Doubled(_, _)
Doubled(num_slots, n) ==
  IF num_slots < n THEN Doubled(num_slots * 2, n) ELSE num_slots

\* query_seq: num_slots for a group of n lights
NumSlots(slots, n, num_lights) ==
  IF slots # None THEN Max(n, (slots * n) \div num_lights)
  ELSE IF n > 4 THEN Doubled(4, n) ELSE Max(4, n)

\* mutant: every cycle starts at the first light of the group
BaseSlot_First(cycle_start, num_slots, n) == 0

BaseSlot(cycle_start, num_slots, n) == (cycle_start * num_slots) % n

\* the child events of one physical group for the event covering the cycle;
\* the whole of a child is cycle + slot / num_slots .. + (slot + 1) / num_slots
\* and a query over the full cycle returns every child with part = whole
SeqGroup(lights, slots, num_lights, cycle) ==
  IF lights = <<>> THEN <<>>
  ELSE LET n == Len(lights)
           num_slots == NumSlots(slots, n, num_lights)
           base_slot == BaseSlot(cycle, num_slots, n)
       IN  [k \in 1..num_slots |->
              [light_id |-> lights[((base_slot + (k - 1)) % n) + 1],
               slot |-> k - 1, num_slots |-> num_slots, lights |-> lights]]

RECURSIVE SeqGroups(_, _, _, _)
SeqGroups(physical_groups, slots, num_lights, cycle) ==
  IF physical_groups = <<>> THEN <<>>
  ELSE SeqGroup(Head(physical_groups), slots, num_lights, cycle)
         \o SeqGroups(Tail(physical_groups), slots, num_lights, cycle)

\* light(group).seq(slots) queried over the full cycle
query_seq(context, group_name, slots, cycle) ==
  SeqGroups(PhysicalGroups(context, group_name), slots, context.num_lights,
            cycle)

\* ------------------------------------- patterns on groups: pick, fast
\* Times of light("all").pick(1, hold=0.25).fast(16) are in units of
\* 1 / (FAST * BEATS_PER_BAR) cycle: a beat (cycle_beats = 4) is FAST units.
FineCycle == FAST * BEATS_PER_BAR
BeatLen == FineCycle \div BEATS_PER_BAR
\* hold = 0.25 cycle
HoldFrac == FineCycle \div 4

\* query_light of light("all"): one event for each cycle the span reaches
AllHaps(span) ==
  LET cycle_start == span.start \div FineCycle
      cycle_end == (span.end \div FineCycle) + 1
      Whole(c) == TimeSpan(c * FineCycle, (c + 1) * FineCycle)
      Hap(c) == LightHap(Whole(c), Intersection(Whole(c), span),
                         [group |-> "all", intensity |-> FULL])
  IN  SelectSeq([i \in 1..(cycle_end - cycle_start) |-> Hap(cycle_start + i - 1)],
                Overlapping)

\* hash(quantized_time): the events of light("all") start at whole cycles,
\* and hash(Fraction(c)) is c
EventSeed(event_time) ==
  ((event_time \div HoldFrac) * HoldFrac) \div FineCycle
\* random.Random(event_seed).sample(lights, 1): a fixed function of the
\* seed; this one stands for it
Sample(lights, event_seed) == lights[(event_seed % Len(lights)) + 1]

\* query_pick for min_n = max_n = 1 and hold = 0.25
Picked(context, h) ==
  LightHap(h.whole, h.part,
           [light_id |-> Sample(ResolveGroup(context, h.value.group),
                                EventSeed(h.whole.start)),
            intensity |-> h.value.intensity])

\* light("all").pick(1, hold=0.25).fast(16) queried over span
query_pick_fast(context, span) ==
  LET factor == [num |-> FAST, den |-> 1]
      Inner(h) == HapScale(Picked(context, h), factor)
  IN  MapHaps(AllHaps(SpanScale(span, factor)), Inner)

\* ------------------------------------- patterns on groups: intensity
\* intensities are percentages; a product of two is in 1/10000
Intensities == {20, 50, FULL}
WithIntensity(h, intensity) ==
  LightHap(h.whole, h.part, [h.value EXCEPT !.intensity = intensity])
\* query_intensity, given what the inner pattern returned
query_intensity(haps, value) ==
  LET Set(h) == WithIntensity(h, value) IN MapHaps(haps, Set)

Init ==
  /\ tick_count = 0
  /\ beat_count = 1
  /\ pending_reset = FALSE
  /\ ui_bar = 1
  /\ ui_beat = 1
  /\ queued_idx = None
  /\ target_bar = None
  /\ clk_pc = "idle"
  /\ es_beat_position = 0
  /\ es_beat_count = 0
  /\ queue_mode = 0
  /\ queued_pattern_index = None
  /\ queue_target_bar = None
  /\ current_pattern_index = 0
  /\ pattern_names = [i \in 1..NumPatterns |-> i]
  /\ palette_override = None
  /\ active_palette = ActivePaletteFor([i \in 1..NumPatterns |-> i], 0, None)
  /\ scheduler = BuildScheduler([i \in 1..NumPatterns |-> i], 0,
                   ActivePaletteFor([i \in 1..NumPatterns |-> i], 0, None))
  /\ eng_pc = "idle"
  /\ r_pc = "idle"
  /\ r_live = FALSE
  /\ r_obj = NoSched
  /\ frame_pat = None
  /\ frame_pals = {}
  /\ replaced_since_check = FALSE
  /\ r_replaced = FALSE
  /\ committed = scheduler
  /\ commits = {}
  /\ last_op = "none"
  /\ lastReq = <<None, None>>
  /\ sinceSync = None
  /\ running = TRUE
  /\ identify_light_index = NoIndex
  /\ identify_live = FALSE
  /\ blackout = FALSE
  /\ active_quick_action = None
  /\ quick_action_start_beat = 0
  /\ beat_clock_pos = 0
  /\ send_errors = 0
  /\ rl_pc = "top"
  /\ frame_src = "none"
  /\ frame_overlay = FALSE
  /\ last_message = {}
  /\ sched_pattern = <<>>
  /\ sched_active_events = [l \in Lights |-> 0]
  /\ sched_time = None
  /\ sched_emitted = [l \in Lights |-> 0]
  /\ sched_rendered = {}
  /\ sched_colors = [l \in Lights |-> "black"]
  /\ clients = {}
  /\ srv_running = TRUE
  /\ conn_open = {}
  /\ bc_pc = [k \in Tasks |-> "idle"]
  /\ bc_snap = [k \in Tasks |-> {}]
  /\ bc_visited = [k \in Tasks |-> {}]
  /\ bc_cur = [k \in Tasks |-> 0]
  /\ dead_clients = [k \in Tasks |-> {}]
  /\ last_msg = [c \in Clients |-> "none"]
  /\ reply = [c \in Clients |-> "none"]
  /\ event_data = <<>>
  /\ transforms = <<>>
  /\ shuffle_seed = None
  /\ blink_phase = [l \in Lights |-> 0]
  /\ q_span = NoSpan
  /\ q_haps = <<>>
  /\ w2_span = NoSpan
  /\ w2_haps = <<>>
  /\ gp_ctx = NoContext
  /\ gp_pattern = [kind |-> "none"]
  /\ gp_cycle = 0
  /\ gp_haps = <<>>
  /\ notation = <<>>
  /\ parsed = NotParsed
  /\ sp_notation = <<>>
  /\ sp_k = 0
  /\ sp_span = NoWindow
  /\ sp_plain = <<>>
  /\ sp_round = <<>>
  /\ sp_slow = <<>>
  /\ sp_inverse = <<>>
  /\ main_pc = "test"
  /\ stop_sends = 0
  /\ stop_pulses = 0
  /\ lock_owner = "nobody"
  /\ rt_ctx = NoContext
  /\ fade_active = FALSE
  /\ pattern_files = [f \in 1..NumFiles |-> "light(\"all\")"]
  /\ patterns_table = [f \in 1..NumFiles |-> "LightPattern"]
  /\ validated = [body |-> "", valid |-> FALSE]
  /\ rt_value = [group |-> "none"]
  /\ rt_op = [kind |-> "none"]
  /\ rt_out = NotParsed
  /\ th_script = [t \in {"main", "render", "control"} |-> <<>>]
  /\ th_pos = [t \in {"main", "render", "control"} |-> 0]

\* ------------------------------------------------- clock consumer (main)

\* with engine_state.lock: beat_position, beat_count = ...
Publish(bc, tc) ==
  /\ es_beat_position' = BeatPosition(bc, tc)
  /\ es_beat_count' = bc

\* PatternEngine.set_pattern_by_index as one step: the index, the active
\* palette and the rebuilt scheduler
SetPatternByIndex(idx) ==
  IF 0 <= idx /\ idx < Len(pattern_names)
  THEN /\ current_pattern_index' = idx
       /\ active_palette' = ActivePaletteFor(pattern_names, idx, palette_override)
       /\ scheduler' = BuildScheduler(pattern_names, idx,
                         ActivePaletteFor(pattern_names, idx, palette_override))
       /\ UNCHANGED <<pattern_names, palette_override>>
  ELSE UNCHANGED engVars

\* msg.type == "clock": the pulse up to its first release of the lock.
ClkPulse ==
  /\ clk_pc = "idle"
  /\ beat_count < MaxBeat \/ tick_count + 1 < TICKS_PER_BEAT
  /\ LET tc == tick_count + 1 IN
     IF ~BeatComplete(tc)
     THEN \* no beat boundary: publish the position
          /\ tick_count' = tc
          /\ Publish(beat_count, tc)
          /\ last_op' = "pulse"
          /\ UNCHANGED <<beat_count, pending_reset, ui_bar, ui_beat,
                         queued_idx, target_bar, clk_pc,
                         queue_mode, queued_pattern_index, queue_target_bar>>
     ELSE IF pending_reset
     THEN \* quantized reset: position 0, then `continue` (nothing published)
          /\ pending_reset' = FALSE
          /\ tick_count' = 0
          /\ beat_count' = 1
          /\ ui_bar' = 1
          /\ ui_beat' = 1
          /\ es_beat_position' = 0
          /\ es_beat_count' = 1
          /\ last_op' = "qreset"
          /\ UNCHANGED <<queued_idx, target_bar, clk_pc,
                         queue_mode, queued_pattern_index, queue_target_bar>>
     ELSE LET bc == NextBeatCount(beat_count) IN
          /\ tick_count' = 0
          /\ beat_count' = bc
          /\ ui_beat' = UiBeat(bc)
          /\ ui_bar' = UiBar(bc)
          /\ UNCHANGED <<pending_reset, queue_mode, queued_pattern_index,
                         queue_target_bar>>
          /\ IF UiBeat(bc) = 1
             THEN \* bar boundary: snapshot the queue under the lock
                  /\ queued_idx' = queued_pattern_index
                  /\ target_bar' = queue_target_bar
                  /\ clk_pc' = IF queued_pattern_index # None
                                  /\ queue_target_bar # None
                                  /\ QueueDue(UiBar(bc), queue_target_bar)
                               THEN "deliver" ELSE "publish"
                  /\ UNCHANGED <<es_beat_position, es_beat_count, last_op>>
             ELSE /\ Publish(bc, 0)
                  /\ last_op' = "pulse"
                  /\ UNCHANGED <<queued_idx, target_bar, clk_pc>>
  /\ UNCHANGED <<engVars, lastReq>>

\* pattern_engine.set_pattern_by_index(queued_idx), outside the lock
ClkDeliver ==
  /\ clk_pc = "deliver"
  /\ SetPatternByIndex(queued_idx)
  /\ clk_pc' = "clear"
  /\ lastReq' = IF lastReq = <<queued_idx, target_bar>>
                THEN <<None, None>> ELSE lastReq
  /\ UNCHANGED <<tick_count, beat_count, pending_reset, ui_bar, ui_beat,
                 queued_idx, target_bar, stateVars, last_op>>

\* with engine_state.lock: queued_pattern_index = None; queue_target_bar = None
ClkClear ==
  /\ clk_pc = "clear"
  /\ queued_pattern_index' = None
  /\ queue_target_bar' = None
  /\ clk_pc' = "publish"
  /\ UNCHANGED <<tick_count, beat_count, pending_reset, ui_bar, ui_beat,
                 queued_idx, target_bar, es_beat_position, es_beat_count,
                 queue_mode, engVars, last_op, lastReq>>

\* the publication that ends a bar-boundary pulse
ClkPublish ==
  /\ clk_pc = "publish"
  /\ Publish(beat_count, tick_count)
  /\ clk_pc' = "idle"
  /\ last_op' = "pulse"
  /\ UNCHANGED <<tick_count, beat_count, pending_reset, ui_bar, ui_beat,
                 queued_idx, target_bar, queue_mode, queued_pattern_index,
                 queue_target_bar, engVars, lastReq>>

\* tick_count = 0; beat_count = 1; ui_bar = ui_beat = 1; shared position 0
ResetToStart(op) ==
  /\ clk_pc = "idle"
  /\ tick_count' = 0
  /\ beat_count' = 1
  /\ ui_bar' = 1
  /\ ui_beat' = 1
  /\ es_beat_position' = 0
  /\ es_beat_count' = 1
  /\ last_op' = op
  /\ UNCHANGED <<pending_reset, queued_idx, target_bar, clk_pc, queue_mode,
                 queued_pattern_index, queue_target_bar,
                 engVars, lastReq>>

\* msg.type == "start"
ClkStart == ResetToStart("start")

\* msg.type == "continue"
ClkContinue == ResetToStart("continue")

\* key == " "
KeySpace == ResetToStart("space")

\* msg.type == "songpos"
ClkSongpos ==
  /\ clk_pc = "idle"
  /\ \E position \in 0..MaxSongPos :
       LET bc == (position \div 4) + 1
           tc == (position % 4) * (TICKS_PER_BEAT \div 4)
       IN /\ beat_count' = bc
          /\ tick_count' = tc
          /\ ui_beat' = UiBeat(bc)
          /\ ui_bar' = UiBar(bc)
          /\ Publish(bc, tc)
  /\ last_op' = "songpos"
  /\ UNCHANGED <<pending_reset, queued_idx, target_bar, clk_pc, queue_mode,
                 queued_pattern_index, queue_target_bar,
                 engVars, lastReq>>

\* key == "r"
KeyReset ==
  /\ clk_pc = "idle"
  /\ ~pending_reset
  /\ pending_reset' = TRUE
  /\ UNCHANGED <<tick_count, beat_count, ui_bar, ui_beat, queued_idx,
                 target_bar, clk_pc, stateVars, engVars,
                 last_op, lastReq>>

\* --------------------------------------------------------- control server
\* The handlers run on one asyncio thread, so they do not interleave with each
\* other.  set_pattern reads queue_mode in one critical section and records
\* the request in a second one; queue_mode is written by this thread only, so
\* the two are one step here.

\* cmd_type == "set_pattern" (index given)
SrvSetPattern ==
  /\ \E index \in 0..(NumPatterns - 1) :
       IF queue_mode > 0
       THEN /\ queued_pattern_index' = index
            /\ queue_target_bar' = TargetBar(es_beat_position, queue_mode)
            /\ lastReq' = <<index, TargetBar(es_beat_position, queue_mode)>>
            /\ UNCHANGED engVars
       ELSE /\ SetPatternByIndex(index)
            /\ UNCHANGED <<queued_pattern_index, queue_target_bar, lastReq>>
  /\ UNCHANGED <<clockVars, es_beat_position, es_beat_count, queue_mode,
                 last_op>>

\* cmd_type == "set_queue_mode"
SrvSetQueueMode ==
  /\ \E mode \in {0, 1, 2} :
       /\ mode # queue_mode
       /\ queue_mode' = mode
       /\ IF mode = 0
          THEN /\ queued_pattern_index' = None
               /\ queue_target_bar' = None
               /\ lastReq' = <<None, None>>
          ELSE UNCHANGED <<queued_pattern_index, queue_target_bar, lastReq>>
  /\ UNCHANGED <<clockVars, es_beat_position, es_beat_count,
                 engVars, last_op>>

\* cmd_type == "sync"
SrvSync ==
  /\ es_beat_position' = 0
  /\ es_beat_count' = 1
  /\ last_op' = "sync"
  /\ UNCHANGED <<clockVars, queue_mode, queued_pattern_index,
                 queue_target_bar, engVars, lastReq>>

\* ------------------------------------------- engine operations, in steps
\* The engine takes no lock.  One thread at a time mutates it here; the
\* renderer reads _scheduler and the scheduler object's pattern and palette,
\* so an operation is split where it writes one of those: first the in-place
\* set_palette on the scheduler in use, then the replacement of _scheduler.

\* history: an operation has finished and left this configuration; it is
\* remembered for the frame in progress, if there is one
Commit(s) ==
  /\ committed' = s
  /\ commits' = IF r_pc = "idle" THEN {} ELSE commits \cup {s}

\* history: _scheduler is replaced; the renderer keeps the object it holds
Detach ==
  /\ replaced_since_check' = (r_pc # "idle")
  /\ IF r_live THEN r_live' = FALSE /\ r_obj' = scheduler
               ELSE UNCHANGED <<r_live, r_obj>>

\* self._current_pattern_index = idx; self._update_active_palette()
SelectIndex(idx) ==
  /\ current_pattern_index' = idx
  /\ active_palette' = ActivePaletteFor(pattern_names, idx, palette_override)
  /\ scheduler' = WithPalette(scheduler,
                    ActivePaletteFor(pattern_names, idx, palette_override))
  /\ eng_pc' = "rebuild"
  /\ UNCHANGED <<pattern_names, palette_override, r_pc, r_live, r_obj,
                 frame_pat, frame_pals, replaced_since_check, r_replaced,
                 committed, commits>>

\* set_pattern_by_index(idx) / set_pattern(name), up to _rebuild_scheduler
EngSetPattern ==
  /\ eng_pc = "idle"
  /\ \E idx \in 0..(Len(pattern_names) - 1) : SelectIndex(idx)

\* next_pattern, up to _rebuild_scheduler
EngNextPattern ==
  /\ eng_pc = "idle"
  /\ Len(pattern_names) > 0
  /\ SelectIndex((current_pattern_index + 1) % Len(pattern_names))

\* prev_pattern, up to _rebuild_scheduler
EngPrevPattern ==
  /\ eng_pc = "idle"
  /\ Len(pattern_names) > 0
  /\ SelectIndex((current_pattern_index - 1) % Len(pattern_names))

\* reload_strudel_patterns, up to _rebuild_scheduler
EngReload ==
  /\ eng_pc = "idle"
  /\ \E table \in Tables :
       LET current_name == IF Len(pattern_names) > 0
                           THEN pattern_names[current_pattern_index + 1]
                           ELSE None
           idx == RestoredIndex(table, current_name)
       IN /\ pattern_names' = table
          /\ current_pattern_index' = idx
          /\ active_palette' = ActivePaletteFor(table, idx, palette_override)
          /\ scheduler' = WithPalette(scheduler,
                            ActivePaletteFor(table, idx, palette_override))
  /\ eng_pc' = "reload"
  /\ UNCHANGED <<palette_override, r_pc, r_live, r_obj, frame_pat, frame_pals,
                 replaced_since_check, r_replaced, committed, commits>>

\* _rebuild_scheduler: self._scheduler = PatternScheduler(..) or None
EngRebuild ==
  /\ eng_pc \in {"rebuild", "reload"}
  /\ scheduler' = BuildScheduler(pattern_names, current_pattern_index,
                                 active_palette)
  /\ eng_pc' = "idle"
  /\ Detach
  /\ Commit(scheduler')
  /\ UNCHANGED <<current_pattern_index, pattern_names, palette_override,
                 active_palette, r_pc, frame_pat, frame_pals, r_replaced>>

\* set_palette(palette_name) with None, which clears the override, or the
\* name of a registered palette, which becomes the override
EngSetPalette ==
  /\ eng_pc = "idle"
  /\ \E palette_name \in {None} \cup (1..NumPalettes) :
       /\ palette_override' = palette_name
       /\ active_palette' = ActivePaletteFor(pattern_names,
                              current_pattern_index, palette_name)
       /\ scheduler' = WithPalette(scheduler,
                         ActivePaletteFor(pattern_names,
                           current_pattern_index, palette_name))
  /\ Commit(scheduler')
  /\ UNCHANGED <<current_pattern_index, pattern_names, eng_pc, r_pc, r_live,
                 r_obj, frame_pat, frame_pals, replaced_since_check,
                 r_replaced>>

\* ------------------------------- the renderer in engine.compute_colors
\* the scheduler object the renderer works on
Held == IF r_live THEN scheduler ELSE r_obj

\* if self._scheduler is None: return black
RndCheck ==
  /\ r_pc = "idle"
  /\ replaced_since_check' = FALSE
  /\ commits' = {committed}
  /\ frame_pat' = None
  /\ frame_pals' = {}
  /\ r_pc' = IF scheduler = NoSched THEN "done" ELSE "use"
  /\ UNCHANGED <<engVars, eng_pc, r_live, r_obj, r_replaced, committed>>

\* return self._scheduler.compute_colors(..): the second read of _scheduler
RndUse ==
  /\ r_pc = "use"
  /\ IF scheduler = NoSched
     THEN /\ r_pc' = "crashed"
          /\ UNCHANGED <<r_live, r_replaced>>
     ELSE /\ r_pc' = "query"
          /\ r_live' = TRUE
          /\ r_replaced' = replaced_since_check
  /\ UNCHANGED <<engVars, eng_pc, r_obj, frame_pat, frame_pals,
                 replaced_since_check, committed, commits>>

\* haps = self.pattern.query(query_span, self.context)
RndQuery ==
  /\ r_pc = "query"
  /\ frame_pat' = Held.pat
  /\ r_pc' = "resolve1"
  /\ UNCHANGED <<engVars, eng_pc, r_live, r_obj, frame_pals,
                 replaced_since_check, r_replaced, committed, commits>>

\* _resolve_color reads self.palette, once for each event it resolves; the
\* event is then entered in the _active_events of the scheduler at work
RndResolve ==
  /\ r_pc \in {"resolve1", "resolve2"}
  /\ frame_pals' = frame_pals \cup {Held.pal}
  /\ r_pc' = IF r_pc = "resolve1" THEN "resolve2" ELSE "done"
  /\ IF r_live
     THEN /\ scheduler' = [scheduler EXCEPT !.tracking = TRUE]
          /\ UNCHANGED r_obj
     ELSE /\ r_obj' = [r_obj EXCEPT !.tracking = TRUE]
          /\ UNCHANGED scheduler
  /\ UNCHANGED <<current_pattern_index, pattern_names, palette_override,
                 active_palette, eng_pc, r_live, frame_pat,
                 replaced_since_check, r_replaced, committed, commits>>

\* compute_colors returns; the next frame starts from here
RndFrameEnd ==
  /\ r_pc = "done"
  /\ r_pc' = "idle"
  /\ r_live' = FALSE
  /\ r_obj' = NoSched
  /\ r_replaced' = FALSE
  /\ frame_pat' = None
  /\ frame_pals' = {}
  /\ replaced_since_check' = FALSE
  /\ commits' = {}
  /\ UNCHANGED <<engVars, eng_pc, committed>>

\* ------------------------------------------------------ the render loop
\* render_loop runs in its own thread.  A step ends where the loop releases
\* engine_state.lock or returns from a call that can raise.

\* mutant: the quick action is looked at before the blackout flag
FrameSource_FlashFirst ==
  IF active_quick_action # None THEN "flash"
  ELSE IF blackout THEN "black"
  ELSE IF scheduler = NoSched THEN "black"
  ELSE "pattern"

\* what PatternEngine.compute_colors renders from
FrameSource ==
  IF blackout THEN "black"
  ELSE IF active_quick_action # None THEN "flash"
  ELSE IF scheduler = NoSched THEN "black"
  ELSE "pattern"

\* while engine_state.running: snapshot the beat state under the lock and
\* hand it to the engine's beat clock
RlSnapshot ==
  /\ rl_pc = "top"
  /\ IF running
     THEN /\ beat_clock_pos' = es_beat_position
          /\ rl_pc' = "compute"
     ELSE /\ rl_pc' = "stopped"
          /\ UNCHANGED beat_clock_pos
  /\ UNCHANGED <<clockVars, stateVars, running, identify_light_index,
                 identify_live, blackout, active_quick_action,
                 quick_action_start_beat, send_errors, frame_src,
                 frame_overlay, last_message>>

\* colors = pattern_engine.compute_colors(): nothing catches what the
\* pattern's query raises
RlCompute ==
  /\ rl_pc = "compute"
  /\ \E raised \in BOOLEAN :
       IF raised /\ FrameSource = "pattern"
       THEN rl_pc' = "dead" /\ UNCHANGED frame_src
       ELSE rl_pc' = "snapshot2" /\ frame_src' = FrameSource
  /\ frame_overlay' = FALSE
  /\ UNCHANGED <<clockVars, stateVars, running, identify_light_index,
                 identify_live, blackout, active_quick_action,
                 quick_action_start_beat, beat_clock_pos, send_errors,
                 last_message>>

\* the second snapshot under the lock and the identify test on its copies:
\* identify_idx is not None and 0 <= identify_idx < num_lights raises
\* TypeError for an index that is not a number
RlIdentify ==
  /\ rl_pc = "snapshot2"
  /\ IF identify_light_index = NoIndex
     THEN rl_pc' = "send" /\ UNCHANGED frame_overlay
     ELSE IF identify_light_index.kind = "str"
     THEN rl_pc' = "dead" /\ UNCHANGED frame_overlay
     ELSE IF ~(0 <= identify_light_index.v /\ identify_light_index.v < NumLights)
     THEN rl_pc' = "send" /\ UNCHANGED frame_overlay
     ELSE IF identify_live
     THEN rl_pc' = "send" /\ frame_overlay' = TRUE
     ELSE rl_pc' = "clear" /\ UNCHANGED frame_overlay
  /\ UNCHANGED <<clockVars, stateVars, running, identify_light_index,
                 identify_live, blackout, active_quick_action,
                 quick_action_start_beat, beat_clock_pos, send_errors,
                 frame_src, last_message>>

\* with engine_state.lock: engine_state.identify_light_index = None
RlIdentifyClear ==
  /\ rl_pc = "clear"
  /\ identify_light_index' = NoIndex
  /\ rl_pc' = "send"
  /\ UNCHANGED <<clockVars, stateVars, running, identify_live, blackout,
                 active_quick_action, quick_action_start_beat, beat_clock_pos,
                 send_errors, frame_src, frame_overlay, last_message>>

\* light_colors: for channel_id in range(num_lights) the colour computed
\* for it, black if there is none
LightColors == [channel_id \in Lights |-> frame_src]

\* all_channels_data: one entry for each index of light_colors
Channels(light_colors) == DOMAIN light_colors

\* dtls_socket.send(message) inside try/except: a failure is counted; the
\* periodic report sets the count back to 0.  The message is kept in
\* streaming_service._last_message
RlSend ==
  /\ rl_pc = "send"
  /\ \E failed \in BOOLEAN, report \in BOOLEAN :
       LET errs == IF failed THEN send_errors + 1 ELSE send_errors
       IN /\ errs <= MaxSendErrors
          /\ send_errors' = IF report THEN 0 ELSE errs
  /\ last_message' = Channels(LightColors)
  /\ rl_pc' = "top"
  /\ UNCHANGED <<clockVars, stateVars, running, identify_light_index,
                 identify_live, blackout, active_quick_action,
                 quick_action_start_beat, beat_clock_pos, frame_src,
                 frame_overlay>>

\* ------------------------------------- commands the render loop acts on
\* trigger_quick_action(QuickAction.flash(duration_beats))
TriggerQuickAction(duration_beats) ==
  /\ active_quick_action' = duration_beats
  /\ quick_action_start_beat' = beat_clock_pos
  /\ UNCHANGED <<clockVars, stateVars, running, identify_light_index,
                 identify_live, blackout, beat_clock_pos, send_errors, rl_pc,
                 frame_src, frame_overlay, last_message>>

\* keyboard 'f'
KeyFlash == TriggerQuickAction(FlashDefault)

\* server command "flash"
SrvFlash == \E duration \in FlashDurations : TriggerQuickAction(duration)

\* toggle_blackout (keyboard 'b', server command "toggle_blackout")
ToggleBlackout ==
  /\ blackout' = ~blackout
  /\ UNCHANGED <<clockVars, stateVars, running, identify_light_index,
                 identify_live, active_quick_action, quick_action_start_beat,
                 beat_clock_pos, send_errors, rl_pc, frame_src, frame_overlay, last_message>>

\* server command "identify_light": index = data.get("index", 0), unchecked
SrvIdentifyLight ==
  /\ \E index \in IndexValues :
       /\ identify_light_index' = index
       /\ identify_live' = TRUE
  /\ UNCHANGED <<clockVars, stateVars, running, blackout, active_quick_action,
                 quick_action_start_beat, beat_clock_pos, send_errors, rl_pc,
                 frame_src, frame_overlay, last_message>>

\* the wall clock passes identify_until
IdentifyExpire ==
  /\ identify_live
  /\ identify_live' = FALSE
  /\ UNCHANGED <<clockVars, stateVars, running, identify_light_index, blackout,
                 active_quick_action, quick_action_start_beat, beat_clock_pos,
                 send_errors, rl_pc, frame_src, frame_overlay, last_message>>

\* main leaves its loop: engine_state.running = False
Quit ==
  /\ running
  /\ running' = FALSE
  /\ UNCHANGED <<clockVars, stateVars, identify_light_index, identify_live,
                 blackout, active_quick_action, quick_action_start_beat,
                 beat_clock_pos, send_errors, rl_pc, frame_src, frame_overlay, last_message>>

\* ---------------------------------------------------------- the scheduler
\* PatternScheduler.__init__: a scheduler for a pattern, tracking nothing
SchedNew ==
  /\ sched_pattern = <<>>
  /\ \E pattern \in Patterns : sched_pattern' = pattern
  /\ sched_active_events' = [l \in Lights |-> 0]
  /\ UNCHANGED <<sched_time, sched_emitted, sched_rendered, sched_colors>>

\* PatternScheduler.compute_colors(beat_position), one frame per time unit
SchedFrame ==
  /\ sched_pattern # <<>>
  /\ sched_time < MaxSchedTime
  /\ sched_time' = sched_time + 1
  /\ sched_emitted' =
       [l \in Lights |-> EmittedIntensity(sched_pattern, sched_active_events,
                                          l, sched_time + 1)]
  /\ sched_active_events' =
       [l \in Lights |-> TrackedAfterFrame(sched_pattern, sched_active_events,
                                           l, sched_time + 1)]
  /\ sched_rendered' = sched_rendered \cup
       UNION {Rendered(sched_pattern, l, sched_time + 1) : l \in Lights}
  /\ UNCHANGED <<sched_pattern, sched_colors>>

\* PatternScheduler(pattern, context) for a scenario
EnvNew ==
  /\ sched_pattern = <<>>
  /\ \E pattern \in ScenarioPatterns : sched_pattern' = pattern
  /\ sched_active_events' = [l \in Lights |-> 0]
  /\ sched_time' = None
  /\ UNCHANGED <<sched_emitted, sched_rendered, sched_colors>>

\* PatternScheduler.compute_colors(beat_position), from beat 0 on, one
\* frame per time unit
EnvFrame ==
  /\ sched_pattern # <<>>
  /\ sched_time < MaxFrame
  /\ sched_time' = sched_time + 1
  /\ sched_emitted' =
       [l \in Lights |-> EmittedIntensity(sched_pattern, sched_active_events,
                                          l, sched_time + 1)]
  /\ sched_colors' =
       [l \in Lights |-> EmittedColor(sched_pattern, sched_active_events,
                                      l, sched_time + 1)]
  /\ sched_active_events' =
       [l \in Lights |-> TrackedAfterFrame(sched_pattern, sched_active_events,
                                           l, sched_time + 1)]
  /\ UNCHANGED <<sched_pattern, sched_rendered>>

\* ------------------------------------------------------ the control server
\* The server is one asyncio thread: a coroutine runs until it awaits.  A
\* step of a task is what it does between two awaits.

\* _broadcast_status is left: its locals are gone
BcReturn(k) ==
  /\ bc_snap' = [bc_snap EXCEPT ![k] = {}]
  /\ bc_visited' = [bc_visited EXCEPT ![k] = {}]
  /\ bc_cur' = [bc_cur EXCEPT ![k] = 0]
  /\ dead_clients' = [dead_clients EXCEPT ![k] = {}]

\* an exception leaves _broadcast_status: it ends _status_loop, or it leaves
\* _handle_command and _handle_websocket through the finally clause
BcRaise(k) ==
  /\ IF k = StatusLoop
     THEN /\ bc_pc' = [bc_pc EXCEPT ![k] = "dead"]
          /\ UNCHANGED <<clients, conn_open, reply>>
     ELSE /\ bc_pc' = [bc_pc EXCEPT ![k] = "idle"]
          /\ clients' = clients \ {k}
          /\ conn_open' = conn_open \ {k}
          /\ reply' = [reply EXCEPT ![k] = "closed"]
  /\ BcReturn(k)

\* for ws in self._clients: the iterator yields ws and the task awaits
\* ws.send_json(status)
BcYield(k, ws, visited, dead) ==
  /\ dead_clients' = [dead_clients EXCEPT ![k] = dead]
  /\ bc_cur' = [bc_cur EXCEPT ![k] = ws]
  /\ bc_visited' = [bc_visited EXCEPT ![k] = visited \cup {ws}]
  /\ bc_pc' = [bc_pc EXCEPT ![k] = "send"]
  /\ UNCHANGED <<clients, conn_open, reply>>

\* _broadcast_status up to its first await; an empty client set returns
BcStart(k) ==
  /\ clients # {}
  /\ bc_snap' = [bc_snap EXCEPT ![k] = clients]
  /\ \E ws \in clients : BcYield(k, ws, {}, {})

\* the for loop asks the set iterator for the next client: RuntimeError if
\* the set changed size since the loop began; else the next client, or the
\* end of the loop and self._clients -= dead_clients
BcNext(k, dead) ==
  IF Cardinality(clients) # Cardinality(bc_snap[k])
  THEN BcRaise(k)
  ELSE \/ /\ \E ws \in clients \ bc_visited[k] :
               BcYield(k, ws, bc_visited[k], dead)
          /\ UNCHANGED bc_snap
       \/ /\ (bc_snap[k] \cap clients) \ bc_visited[k] = {}
          /\ clients' = clients \ dead
          /\ bc_pc' = [bc_pc EXCEPT ![k] = "idle"]
          /\ BcReturn(k)
          /\ UNCHANGED <<conn_open, reply>>

\* _status_loop: the sleep is over, broadcast again
StatusTick ==
  /\ srv_running
  /\ bc_pc[StatusLoop] = "idle"
  /\ BcStart(StatusLoop)
  /\ UNCHANGED <<srv_running, last_msg>>

\* ws.send_json(status) returns or raises; the loop goes on
BcSendDone ==
  \E k \in Tasks :
    /\ bc_pc[k] = "send"
    /\ \E sent \in BOOLEAN :
         /\ sent => bc_cur[k] \in conn_open
         /\ BcNext(k, IF sent THEN dead_clients[k]
                       ELSE dead_clients[k] \cup {bc_cur[k]})
    /\ UNCHANGED <<srv_running, last_msg>>

\* _handle_websocket: a client connects
Connect ==
  \E c \in Clients \ conn_open :
    /\ srv_running
    /\ conn_open' = conn_open \cup {c}
    /\ clients' = clients \cup {c}
    /\ last_msg' = [last_msg EXCEPT ![c] = "none"]
    /\ reply' = [reply EXCEPT ![c] = "none"]
    /\ UNCHANGED <<srv_running, bc_pc, bc_snap, bc_visited, bc_cur,
                   dead_clients>>

\* _handle_websocket: the client closes, finally: self._clients.discard(ws)
Disconnect ==
  \E c \in conn_open :
    /\ bc_pc[c] = "idle"
    /\ conn_open' = conn_open \ {c}
    /\ clients' = clients \ {c}
    /\ last_msg' = [last_msg EXCEPT ![c] = "none"]
    /\ reply' = [reply EXCEPT ![c] = "none"]
    /\ UNCHANGED <<srv_running, bc_pc, bc_snap, bc_visited, bc_cur,
                   dead_clients>>

\* _handle_websocket: json.loads raises JSONDecodeError, answered with an
\* error message
ConnMalformed ==
  \E c \in conn_open :
    /\ bc_pc[c] = "idle"
    /\ last_msg' = [last_msg EXCEPT ![c] = "malformed"]
    /\ reply' = [reply EXCEPT ![c] = "error"]
    /\ UNCHANGED <<clients, srv_running, conn_open, bc_pc, bc_snap,
                   bc_visited, bc_cur, dead_clients>>

\* _handle_command: a type no branch matches (unknown, or None when the
\* type is missing), or set_pattern with neither index nor name: the
\* handler returns without sending anything
ConnUnhandled ==
  \E c \in conn_open, kind \in ProtocolErrors \ {"malformed"} :
    /\ bc_pc[c] = "idle"
    /\ last_msg' = [last_msg EXCEPT ![c] = kind]
    /\ reply' = [reply EXCEPT ![c] = "nothing"]
    /\ UNCHANGED <<clients, srv_running, conn_open, bc_pc, bc_snap,
                   bc_visited, bc_cur, dead_clients>>

\* _handle_command: toggle_blackout, then await self._broadcast_status()
SrvToggleBlackout ==
  \E c \in conn_open :
    /\ bc_pc[c] = "idle"
    /\ blackout' = ~blackout
    /\ last_msg' = [last_msg EXCEPT ![c] = "toggle_blackout"]
    /\ IF clients = {}
       THEN /\ reply' = [reply EXCEPT ![c] = "nothing"]
            /\ UNCHANGED <<clients, conn_open, bc_pc, bc_snap, bc_visited,
                           bc_cur, dead_clients>>
       ELSE BcStart(c)
    /\ UNCHANGED <<srv_running, running, identify_light_index, identify_live,
                   active_quick_action, quick_action_start_beat,
                   beat_clock_pos, send_errors, rl_pc, frame_src,
                   frame_overlay, last_message>>

\* _stop_async: _running = False, every connection is closed, _clients.clear()
SrvStop ==
  /\ srv_running
  /\ srv_running' = FALSE
  /\ clients' = {}
  /\ conn_open' = {}
  /\ last_msg' = [c \in Clients |-> "none"]
  /\ reply' = [c \in Clients |-> "none"]
  /\ UNCHANGED <<bc_pc, bc_snap, bc_visited, bc_cur, dead_clients>>

\* ------------------------------------------------- mini notation: actions

\* One more character of the notation is written.
NtType ==
  \E c \in Chars :
    /\ Len(notation) < MaxNotation
    /\ notation' = Append(notation, c)
    /\ parsed' = NotParsed

\* parse_mini(notation)
ParseMini ==
  /\ parsed = NotParsed
  /\ parsed' = parse_mini(notation)
  /\ UNCHANGED notation

\* ------------------------------------------ patterns: fast and slow, actions
\* p = light(notation), to be played k times as fast and as slow
SpNew ==
  \E str \in Notations, k \in Speeds :
    /\ sp_notation' = str
    /\ sp_k' = k
    /\ sp_span' = NoWindow
    /\ sp_plain' = <<>>
    /\ sp_round' = <<>>
    /\ sp_slow' = <<>>
    /\ sp_inverse' = <<>>

\* p, p.fast(k).fast(1 / k), p.slow(k) and p.fast(1 / k) queried with one span
SpQuery ==
  /\ sp_k > 0
  /\ \E span \in SpeedWindows :
       LET data == QueryData(sp_notation)
           k == Fraction(sp_k, 1)
       IN  /\ sp_span' = span
           /\ sp_plain' = query_fast(data, <<>>, 0, span)
           /\ sp_round' = query_fast(data, <<k, FloatInverse(sp_k)>>, 2, span)
           /\ sp_slow' = query_fast(data, <<SlowFactor(sp_k)>>, 1, span)
           /\ sp_inverse' = query_fast(data, <<FloatInverse(sp_k)>>, 1, span)
  /\ UNCHANGED <<sp_notation, sp_k>>

\* ------------------------------------------------- shutdown: main's loop
\* main runs the clock loop, then the finally block.  The signal handler runs
\* in main's thread between any two of its steps.

\* the fields of renderVars main's steps leave alone
renderRest == <<identify_light_index, identify_live, blackout,
                active_quick_action, quick_action_start_beat, beat_clock_pos,
                send_errors, rl_pc, frame_src, frame_overlay, last_message>>
\* what neither main's loop nor the render loop touches
notShutdown == <<engVars, frameVars, schedVars, serverVars, patVars, gpVars,
                 parseVars, speedVars, lockVars, rtVars, fadeVars, loadVars>>

\* while engine_state.running:
MainTest ==
  /\ main_pc = "test"
  /\ main_pc' = IF running THEN "key" ELSE "finally"
  /\ UNCHANGED <<stop_sends, stop_pulses, clockVars, stateVars, histVars,
                 renderVars>>

\* key = keyboard.get_key(): "q" sets running to False and breaks, "p" and
\* "c" enter a selector, any other key or none goes on to the port
MainKey ==
  /\ main_pc = "key"
  /\ \E key \in {"none", "q", "p"} :
       /\ main_pc' = CASE key = "q" -> "finally"
                       [] key = "p" -> "selector"
                       [] OTHER -> "poll"
       /\ running' = IF key = "q" THEN FALSE ELSE running
  /\ UNCHANGED <<stop_sends, stop_pulses, clockVars, stateVars, histVars,
                 renderRest>>

\* pattern_selector_input / palette_selector_input: while True, until the
\* user confirms or cancels
MainSelector ==
  /\ main_pc = "selector"
  /\ main_pc' = "poll"
  /\ UNCHANGED <<stop_sends, stop_pulses, clockVars, stateVars, histVars,
                 renderVars>>

\* msg = port.poll() gives None: sleep, continue
MainPoll ==
  /\ main_pc = "poll"
  /\ main_pc' = "test"
  /\ UNCHANGED <<stop_sends, stop_pulses, clockVars, stateVars, histVars,
                 renderVars>>

\* msg = port.poll() gives a clock message: the pulse is processed
MainPulse ==
  /\ main_pc = "poll"
  /\ es_beat_position < MaxRenderTicks
  /\ ClkPulse
  /\ main_pc' = "test"
  /\ stop_pulses' = IF running THEN stop_pulses ELSE stop_pulses + 1
  /\ UNCHANGED <<stop_sends, sinceSync, renderVars>>

\* signal_handler (SIGINT, SIGTERM): engine_state.running = False
SignalHandler ==
  /\ main_pc \in {"test", "key", "selector", "poll"}
  /\ running
  /\ running' = FALSE
  /\ UNCHANGED <<shutVars, clockVars, stateVars, histVars, renderRest>>

\* finally: engine_state.running = False; keyboard.stop()
MainFinally ==
  /\ main_pc = "finally"
  /\ running' = FALSE
  /\ main_pc' = "join_render"
  /\ UNCHANGED <<stop_sends, stop_pulses, clockVars, stateVars, histVars,
                 renderRest>>

\* render_thread.join(timeout=1.0): returns when the thread has ended or the
\* second has passed
MainJoinRender ==
  /\ main_pc = "join_render"
  /\ main_pc' = "join_control"
  /\ UNCHANGED <<stop_sends, stop_pulses, clockVars, stateVars, histVars,
                 renderVars>>

\* control_server.stop(); control_thread.join(timeout=1.0); midi_out.close();
\* hue.stop()
MainJoinControl ==
  /\ main_pc = "join_control"
  /\ main_pc' = "done"
  /\ UNCHANGED <<stop_sends, stop_pulses, clockVars, stateVars, histVars,
                 renderVars>>

\* history: a frame sent after running was set to False
RlSendCounted ==
  /\ RlSend
  /\ stop_sends' = IF running THEN stop_sends ELSE stop_sends + 1
  /\ UNCHANGED <<main_pc, stop_pulses, histVars>>

MainSteps ==
  \/ MainTest \/ MainKey \/ MainPoll \/ MainPulse \/ MainFinally
  \/ MainJoinRender \/ MainJoinControl
RenderSteps ==
  \/ (RlSnapshot \/ RlCompute \/ RlIdentify) /\ UNCHANGED <<shutVars, histVars>>
  \/ RlSendCounted

\* ------------------------------------------------- the state mutex
\* engine_state.lock is a threading.Lock.  What each thread does is a script
\* of steps: "acquire" and "release" of the lock, "access" to fields of the
\* shared state, "engine" for a call into the pattern engine, "evaluate" for
\* the evaluation of the pattern, "send" for the transport send and "io" for
\* a network or MIDI write.
Threads == {"main", "render", "control"}

\* with engine_state.lock: reads and writes of fields
Locked == <<"acquire", "access", "release">>
\* on_pattern_change: with engine_state.lock: fade_active = False
OnPatternChange == Locked
\* set_pattern, set_pattern_by_index, next_pattern, prev_pattern: the index,
\* the palette, the scheduler, then the callback
SetPattern == <<"engine">> \o OnPatternChange
\* _broadcast_status: _get_status, then ws.send_json
Broadcast == Locked \o <<"io">>

\* mutant: the queued pattern is delivered inside the snapshot's section
DeliverQueued_Locked ==
  <<"acquire", "access">> \o SetPattern \o <<"release">> \o Locked \o Locked

\* a pulse at a bar boundary with a queued pattern due: snapshot, delivery,
\* clearing of the queue, publication
DeliverQueued == Locked \o SetPattern \o Locked \o Locked

\* one iteration of render_loop, without and with the identify flag to clear
RenderScripts ==
  {Locked \o <<"evaluate">> \o Locked \o <<"send">>,
   Locked \o <<"evaluate">> \o Locked \o Locked \o <<"send">>}
\* main: a publication (pulse, reset, start, continue, songpos, space), a bar
\* boundary with nothing due, a delivery, a pattern key, a reload or palette
\* key
MainScripts ==
  {Locked, Locked \o Locked, DeliverQueued, SetPattern, <<"engine">>}
\* the control server's commands and its status loop
ControlScripts ==
  {Locked \o Locked \o Broadcast,      \* set_pattern, queued
   Locked \o SetPattern \o Broadcast,  \* set_pattern, at once
   <<"io">> \o Locked,                 \* sync
   Locked \o Broadcast,                \* fade_out, set_zone_brightness
   Locked,                             \* set_queue_mode, identify_light
   <<"engine">> \o Broadcast,          \* set_palette, toggle_blackout
   Broadcast}                          \* _status_loop
Scripts(t) ==
  CASE t = "main" -> MainScripts
    [] t = "render" -> RenderScripts
    [] t = "control" -> ControlScripts

\* the step thread t is about to take ("none": it is between two scripts)
NextStep(t) ==
  IF th_pos[t] < Len(th_script[t]) THEN th_script[t][th_pos[t] + 1] ELSE "none"

\* thread t starts on something
ThBegin ==
  \E t \in Threads :
    /\ NextStep(t) = "none"
    /\ \E script \in Scripts(t) :
         /\ th_script' = [th_script EXCEPT ![t] = script]
         /\ th_pos' = [th_pos EXCEPT ![t] = 0]
    /\ UNCHANGED lock_owner

\* thread t takes its next step; Lock.acquire blocks while the lock is held,
\* by whichever thread
ThStep ==
  \E t \in Threads :
    /\ NextStep(t) # "none"
    /\ NextStep(t) = "acquire" => lock_owner = "nobody"
    /\ lock_owner' = CASE NextStep(t) = "acquire" -> t
                       [] NextStep(t) = "release" -> "nobody"
                       [] OTHER -> lock_owner
    /\ th_pos' = [th_pos EXCEPT ![t] = th_pos[t] + 1]
    /\ UNCHANGED th_script

\* ------------------------------------------- patterns: retargeting
\* LightValue; a field that is None in the source is "none" here, but for
\* light_id, whose None is None
LightValue(light_id, group, color, color_ref, intensity, envelope, modulator) ==
  [light_id |-> light_id, group |-> group, color |-> color,
   color_ref |-> color_ref, intensity |-> intensity, envelope |-> envelope,
   modulator |-> modulator]

\* what light(group) followed by color, intensity and envelope returns:
\* with_color clears color_ref and with_color_ref clears color
SourceValues ==
  {LightValue(None, g, c[1], c[2], i, e, "none") :
     g \in {"all", "strip", "lamps"},
     c \in {<<"none", "none">>, <<"red", "none">>, <<"none", "palette(0)">>},
     i \in {50, FULL}, e \in {"none", "adsr"}}

\* LightValue(light_id=light_id, group=None, color=hap.value.color,
\*            intensity=hap.value.intensity, envelope=hap.value.envelope,
\*            modulator=...): color_ref is not given and takes its default
Retargeted(value, light_id, modulator) ==
  LightValue(light_id, "none", value.color, "none", value.intensity,
             value.envelope, modulator)

\* query_seq over one cycle: a value for each slot
seq_values(context, value, cycle) ==
  LET children == query_seq(context, value.group, None, cycle)
  IN  [k \in 1..Len(children) |->
         Retargeted(value, children[k].light_id, value.modulator)]

\* the elements of lights that are in chosen, in the order of lights
Chosen(lights, chosen) ==
  LET In(l) == l \in chosen IN SelectSeq(lights, In)
Elements(lights) == {lights[i] : i \in 1..Len(lights)}

\* query_pick for integer min_n and max_n: every result the random
\* generator can lead to.  rng.randint(a, b) raises ValueError when a > b.
pick_outcomes(context, value, min_n, max_n) ==
  LET lights == ResolveGroup(context, value.group)
      actual_min == min_n
      actual_max == max_n
      upper == Min(actual_max, Len(lights))
  IN  IF lights = <<>> THEN {Returns(<<>>)}
      ELSE IF actual_min > upper THEN {Raises("ValueError")}
      ELSE {Returns([k \in 1..Len(Chosen(lights, chosen)) |->
                       Retargeted(value, Chosen(lights, chosen)[k],
                                  value.modulator)]) :
              chosen \in {c \in SUBSET Elements(lights) :
                            \E n \in actual_min..upper :
                              Cardinality(c) = Max(1, Min(n, Len(lights)))}}

\* query_zone, given the lights of the zone
zone_values(context, value, zone_lights) ==
  IF zone_lights = {} THEN <<>>
  ELSE LET intersected == Chosen(ResolveGroup(context, value.group), zone_lights)
       IN  [k \in 1..Len(intersected) |->
              Retargeted(value, intersected[k], value.modulator)]

\* query_wave and query_autonomous (no colors given) on a group
expanded_values(context, value, modulator) ==
  LET group_lights == ResolveGroup(context, value.group)
  IN  [k \in 1..Len(group_lights) |->
         Retargeted(value, group_lights[k], modulator)]

\* PatternScheduler._resolve_color; NoPalette is a palette of None
NoPalette == <<>>
DEFAULT_COLOR == "white"
resolve_color(color, color_ref, palette) ==
  IF color # "none" THEN color
  ELSE IF color_ref # "none" /\ palette # NoPalette THEN palette[1]
  ELSE DEFAULT_COLOR

\* a source event: light(group), with colour, intensity and envelope, in a
\* context
RtNew ==
  \E context \in {c \in Contexts : c.num_lights <= MaxRtLights}, value \in SourceValues :
    /\ rt_ctx = NoContext
    /\ rt_ctx' = context
    /\ rt_value' = value
    /\ UNCHANGED <<rt_op, rt_out>>

RtSeq ==
  \E cycle \in 0..MaxCycle :
    /\ rt_ctx # NoContext
    /\ rt_op' = [kind |-> "seq", cycle |-> cycle]
    /\ rt_out' = Returns(seq_values(rt_ctx, rt_value, cycle))
    /\ UNCHANGED <<rt_ctx, rt_value>>

RtPick ==
  \E min_n \in 1..MaxPick, max_n \in 1..MaxPick :
    /\ rt_ctx # NoContext
    /\ max_n >= min_n
    /\ rt_op' = [kind |-> "pick", min_n |-> min_n, max_n |-> max_n]
    /\ rt_out' \in pick_outcomes(rt_ctx, rt_value, min_n, max_n)
    /\ UNCHANGED <<rt_ctx, rt_value>>

RtZone ==
  \E zone_lights \in SUBSET (0..(rt_ctx.num_lights - 1)) :
    /\ rt_ctx # NoContext
    /\ rt_op' = [kind |-> "zone", zone_lights |-> zone_lights]
    /\ rt_out' = Returns(zone_values(rt_ctx, rt_value, zone_lights))
    /\ UNCHANGED <<rt_ctx, rt_value>>

RtWave ==
  /\ rt_ctx # NoContext
  /\ rt_op' = [kind |-> "wave"]
  /\ rt_out' = Returns(expanded_values(rt_ctx, rt_value, "wave"))
  /\ UNCHANGED <<rt_ctx, rt_value>>

RtAutonomous ==
  /\ rt_ctx # NoContext
  /\ rt_op' = [kind |-> "autonomous"]
  /\ rt_out' = Returns(expanded_values(rt_ctx, rt_value, rt_value.modulator))
  /\ UNCHANGED <<rt_ctx, rt_value>>

\* ------------------------------------------------------- the fade-out
\* server command "fade_out": with engine_state.lock: fade_active = True
SrvFadeOut ==
  /\ fade_active' = TRUE
  /\ UNCHANGED <<clockVars, stateVars, engVars, frameVars, histVars,
                 renderVars, schedVars, serverVars, patVars, gpVars, parseVars,
                 speedVars, shutVars, lockVars, rtVars, loadVars>>

\* on_pattern_change: if engine_state.fade_active: fade_active = False
OnPatternChangeFade(active) == FALSE

\* the end of an operation of the engine: _rebuild_scheduler, and in
\* set_pattern, set_pattern_by_index, next_pattern and prev_pattern
\* (eng_pc = "rebuild") the call of _on_pattern_change; reload_strudel_patterns
\* (eng_pc = "reload") returns after _rebuild_scheduler
EngFinish ==
  /\ EngRebuild
  /\ fade_active' = IF eng_pc = "rebuild" THEN OnPatternChangeFade(fade_active)
                    ELSE fade_active

\* ------------------------------------------------- the pattern loader
\* Bodies of pattern files: a pattern expression, a number, a string, an
\* assignment to _result, a statement that leaves no result, a call of an
\* unknown name, a syntax error, nothing
Bodies ==
  {"light(\"all\")", "42", "\"hello\"", "_result = 3", "x = 1", "foo(\"all\")",
   "light(", ""}

\* what exec leaves in _result, or the exception of ast.parse or exec
Evaluate(body) ==
  CASE body = "light(\"all\")" -> [error |-> "none", result |-> "LightPattern"]
    [] body = "42" -> [error |-> "none", result |-> "int"]
    [] body = "\"hello\"" -> [error |-> "none", result |-> "str"]
    [] body = "_result = 3" -> [error |-> "none", result |-> "int"]
    [] body = "x = 1" -> [error |-> "none", result |-> "None"]
    [] body = "foo(\"all\")" -> [error |-> "NameError", result |-> "None"]
    [] body = "light(" -> [error |-> "SyntaxError", result |-> "None"]
    [] body = "" -> [error |-> "none", result |-> "None"]

\* _load_pattern_file with _execute_pattern_body: the pattern, or the
\* exception load_patterns catches
execute_pattern_body(body) ==
  IF body = "" THEN [error |-> "ValueError", result |-> "None"]
  ELSE IF Evaluate(body).error = "SyntaxError"
  THEN [error |-> "ValueError", result |-> "None"]
  ELSE IF Evaluate(body).error # "none" THEN Evaluate(body)
  ELSE IF Evaluate(body).result = "None"
  THEN [error |-> "ValueError", result |-> "None"]
  ELSE Evaluate(body)

\* ControlServer._validate_pattern: the "valid" of the answer
validate_pattern(body) ==
  IF body = "" THEN FALSE
  ELSE IF Evaluate(body).error # "none" THEN FALSE
  ELSE Evaluate(body).result = "LightPattern"

\* a pattern file is written
LdWrite ==
  \E f \in 1..NumFiles, body \in Bodies :
    /\ pattern_files' = [pattern_files EXCEPT ![f] = body]
    /\ UNCHANGED <<patterns_table, validated>>

\* reload_strudel_patterns: _patterns.clear(), then register for each file
\* load_patterns returns
LdReload ==
  /\ patterns_table' =
       [f \in 1..NumFiles |->
          IF execute_pattern_body(pattern_files[f]).error = "none"
          THEN execute_pattern_body(pattern_files[f]).result
          ELSE "absent"]
  /\ UNCHANGED <<pattern_files, validated>>

\* server command "validate_pattern"
LdValidate ==
  \E body \in Bodies :
    /\ validated' = [body |-> body, valid |-> validate_pattern(body)]
    /\ UNCHANGED <<pattern_files, patterns_table>>

\* -------------------------------------------------------- specifications

\* Spec: the clock consumer against the control server's queue commands.
\* ------------------------------------------------------ patterns: actions
Uses(ts, t) == \E i \in 1..Len(ts) : ts[i] = t

\* light(notation) followed by a chain of transforms
PatNew ==
  /\ event_data = <<>>
  /\ \E data \in [1..SlotsPerCycle -> Lights \cup {Rest}], ts \in Chains,
        seed \in Seeds, phase \in [Lights -> Phases] :
       /\ Uses(ts, "shuffle") \/ seed = None
       /\ Uses(ts, "autonomous") \/ phase = [l \in Lights |-> 0]
       /\ event_data' = data
       /\ transforms' = ts
       /\ shuffle_seed' = seed
       /\ blink_phase' = phase
  /\ UNCHANGED <<q_span, q_haps, w2_span, w2_haps>>

\* pattern.query(span, ctx)
PatQuery ==
  /\ event_data # <<>>
  /\ \E span \in Windows :
       /\ q_span' = span
       /\ q_haps' = Query(Len(transforms), span)
       /\ IF q_span # NoSpan /\ Within(span, q_span)
          THEN w2_span' = q_span /\ w2_haps' = q_haps
          ELSE w2_span' = NoSpan /\ w2_haps' = <<>>
  /\ UNCHANGED <<event_data, transforms, shuffle_seed, blink_phase>>

\* --------------------------------------------- patterns on groups: actions
\* light(group).seq(slots).query_cycle(cycle, ctx)
GpSeq ==
  \E context \in Contexts, group_name \in {"all", "strip", "lamps"},
     slots \in {None} \cup (1..MaxSlots), cycle \in 0..(MaxCycle + 1) :
    /\ gp_ctx' = context
    /\ gp_pattern' = [kind |-> "seq", group |-> group_name, slots |-> slots]
    /\ gp_cycle' = cycle
    /\ gp_haps' = query_seq(context, group_name, slots, cycle)

\* light("all").pick(1, hold=0.25).fast(16) queried over the beat [k, k + 1)
GpPick ==
  \E context \in Contexts, k \in 0..(BEATS_PER_BAR * (MaxCycle + 1) - 1) :
    /\ gp_ctx' = context
    /\ gp_pattern' = [kind |-> "pick"]
    /\ gp_cycle' = k
    /\ gp_haps' = query_pick_fast(context,
                                  TimeSpan(k * BeatLen, (k + 1) * BeatLen))

\* light("all").intensity(a).intensity(b).query_cycle(cycle, ctx)
GpIntensity ==
  \E a \in Intensities, b \in Intensities, cycle \in 0..MaxCycle :
    /\ gp_pattern' = [kind |-> "intensity", a |-> a, b |-> b]
    /\ gp_cycle' = cycle
    /\ gp_haps' = query_intensity(
                    query_intensity(
                      AllHaps(TimeSpan(cycle * FineCycle, (cycle + 1) * FineCycle)),
                      a),
                    b)
    /\ UNCHANGED gp_ctx

Next ==
  \/ ClkPulse /\ UNCHANGED notClock
  \/ ClkDeliver /\ UNCHANGED notClock
  \/ ClkClear /\ UNCHANGED notClock
  \/ ClkPublish /\ UNCHANGED notClock
  \/ ClkStart /\ UNCHANGED notClock
  \/ ClkContinue /\ UNCHANGED notClock
  \/ ClkSongpos /\ UNCHANGED notClock
  \/ KeySpace /\ UNCHANGED notClock
  \/ SrvSetPattern /\ UNCHANGED notClock
  \/ SrvSetQueueMode /\ UNCHANGED notClock
  \/ SrvSync /\ UNCHANGED notClock

Spec == Init /\ [][Next]_vars

\* SpecClock: the clock consumer, the keyboard resets and the sync command,
\* with the pulses since the last sync counted (a pulse that was already
\* being processed when the sync arrived is not counted).
PulseCounted ==
  sinceSync' = IF clk_pc' # "idle" THEN sinceSync
               ELSE IF last_op' = "pulse" THEN CountPulse(sinceSync)
               ELSE None

NextClock ==
  \/ ClkPulse /\ PulseCounted /\ UNCHANGED <<frameVars, renderVars, schedVars, serverVars, patVars, gpVars, parseVars, speedVars, shutVars, lockVars, rtVars, fadeVars, loadVars>>
  \/ ClkPublish /\ PulseCounted /\ UNCHANGED <<frameVars, renderVars, schedVars, serverVars, patVars, gpVars, parseVars, speedVars, shutVars, lockVars, rtVars, fadeVars, loadVars>>
  \/ ClkStart /\ sinceSync' = None /\ UNCHANGED <<frameVars, renderVars, schedVars, serverVars, patVars, gpVars, parseVars, speedVars, shutVars, lockVars, rtVars, fadeVars, loadVars>>
  \/ ClkContinue /\ sinceSync' = None /\ UNCHANGED <<frameVars, renderVars, schedVars, serverVars, patVars, gpVars, parseVars, speedVars, shutVars, lockVars, rtVars, fadeVars, loadVars>>
  \/ ClkSongpos /\ sinceSync' = None /\ UNCHANGED <<frameVars, renderVars, schedVars, serverVars, patVars, gpVars, parseVars, speedVars, shutVars, lockVars, rtVars, fadeVars, loadVars>>
  \/ KeySpace /\ sinceSync' = None /\ UNCHANGED <<frameVars, renderVars, schedVars, serverVars, patVars, gpVars, parseVars, speedVars, shutVars, lockVars, rtVars, fadeVars, loadVars>>
  \/ KeyReset /\ UNCHANGED <<sinceSync, frameVars, renderVars, schedVars,
                      serverVars, patVars, gpVars, parseVars, speedVars, shutVars, lockVars, rtVars, fadeVars, loadVars>>
  \/ SrvSync /\ UNCHANGED <<frameVars, renderVars, schedVars, serverVars, patVars, gpVars, parseVars, speedVars, shutVars, lockVars, rtVars, fadeVars, loadVars>>
       /\ sinceSync' = IF clk_pc = "idle" THEN 0 ELSE None

SpecClock == Init /\ [][NextClock]_vars
\* SpecEngine: the renderer's compute_colors against the engine operations.
\* While one frame is computed, operations are followed until more than
\* MaxCommitsPerFrame configurations have been left.
FrameBudget == Cardinality(commits) <= MaxCommitsPerFrame

NextEngine ==
  \/ EngSetPattern /\ FrameBudget /\ UNCHANGED notEngine
  \/ EngNextPattern /\ FrameBudget /\ UNCHANGED notEngine
  \/ EngPrevPattern /\ FrameBudget /\ UNCHANGED notEngine
  \/ EngReload /\ FrameBudget /\ UNCHANGED notEngine
  \/ EngRebuild /\ UNCHANGED notEngine
  \/ EngSetPalette /\ FrameBudget /\ UNCHANGED notEngine
  \/ RndCheck /\ UNCHANGED notEngine
  \/ RndUse /\ UNCHANGED notEngine
  \/ RndQuery /\ UNCHANGED notEngine
  \/ RndResolve /\ UNCHANGED notEngine
  \/ RndFrameEnd /\ UNCHANGED notEngine

SpecEngine == Init /\ [][NextEngine]_vars

\* SpecRender: the render loop against the clock and the commands it acts on.
\* The clock is followed for the first MaxRenderTicks pulses, all of them
\* inside the first beat.
NextRender ==
  \/ RlSnapshot /\ UNCHANGED notRender
  \/ RlCompute /\ UNCHANGED notRender
  \/ RlIdentify /\ UNCHANGED notRender
  \/ RlIdentifyClear /\ UNCHANGED notRender
  \/ RlSend /\ UNCHANGED notRender
  \/ KeyFlash /\ UNCHANGED notRender
  \/ SrvFlash /\ UNCHANGED notRender
  \/ ToggleBlackout /\ UNCHANGED notRender
  \/ SrvIdentifyLight /\ UNCHANGED notRender
  \/ IdentifyExpire /\ UNCHANGED notRender
  \/ Quit /\ UNCHANGED notRender
  \/ ClkPulse /\ es_beat_position < MaxRenderTicks
       /\ UNCHANGED <<sinceSync, frameVars, renderVars, schedVars,
                      serverVars, patVars, gpVars, parseVars, speedVars, shutVars, lockVars, rtVars, fadeVars, loadVars>>

SpecRender == Init /\ [][NextRender]_vars

\* SpecSched: one scheduler rendering a pattern frame after frame.
NextSched ==
  \/ SchedNew /\ UNCHANGED notSched
  \/ SchedFrame /\ UNCHANGED notSched

SpecSched == Init /\ [][NextSched]_vars

\* SpecServer: the control server's connections and status broadcasts.
NextServer ==
  \/ StatusTick /\ UNCHANGED <<notServer, renderVars>>
  \/ BcSendDone /\ UNCHANGED <<notServer, renderVars>>
  \/ Connect /\ UNCHANGED <<notServer, renderVars>>
  \/ Disconnect /\ UNCHANGED <<notServer, renderVars>>
  \/ ConnMalformed /\ UNCHANGED <<notServer, renderVars>>
  \/ ConnUnhandled /\ UNCHANGED <<notServer, renderVars>>
  \/ SrvToggleBlackout /\ UNCHANGED notServer
  \/ SrvStop /\ UNCHANGED <<notServer, renderVars>>

SpecServer == Init /\ [][NextServer]_vars

\* SpecPattern: one pattern queried with one window after another.
NextPattern ==
  \/ PatNew /\ UNCHANGED notPattern
  \/ PatQuery /\ UNCHANGED notPattern

SpecPattern == Init /\ [][NextPattern]_vars

\* SpecGroups: patterns on groups of lights, queried cycle by cycle.
NextGroups ==
  \/ GpSeq /\ UNCHANGED notGroups
  \/ GpPick /\ UNCHANGED notGroups
  \/ GpIntensity /\ UNCHANGED notGroups

SpecGroups == Init /\ [][NextGroups]_vars

\* SpecEnvelope: one scheduler rendering a scenario from beat 0 on.
NextEnvelope ==
  \/ EnvNew /\ UNCHANGED notSched
  \/ EnvFrame /\ UNCHANGED notSched

SpecEnvelope == Init /\ [][NextEnvelope]_vars

\* SpecParser: notations written character by character, then parsed.
NextParser ==
  \/ NtType /\ UNCHANGED notParser
  \/ ParseMini /\ UNCHANGED notParser

SpecParser == Init /\ [][NextParser]_vars

\* SpecSpeed: a pattern and its fast and slow versions, queried together.
NextSpeed ==
  \/ SpNew /\ UNCHANGED notSpeed
  \/ SpQuery /\ UNCHANGED notSpeed

SpecSpeed == Init /\ [][NextSpeed]_vars

\* SpecBlackout: the render loop against blackout, flashes and the engine's
\* pattern and palette operations.
NextBlackout ==
  \/ EngSetPattern /\ UNCHANGED notEngine
  \/ EngNextPattern /\ UNCHANGED notEngine
  \/ EngPrevPattern /\ UNCHANGED notEngine
  \/ EngReload /\ UNCHANGED notEngine
  \/ EngRebuild /\ UNCHANGED notEngine
  \/ EngSetPalette /\ UNCHANGED notEngine
  \/ RlSnapshot /\ UNCHANGED notRender
  \/ RlCompute /\ UNCHANGED notRender
  \/ RlIdentify /\ UNCHANGED notRender
  \/ RlSend /\ UNCHANGED notRender
  \/ KeyFlash /\ UNCHANGED notRender
  \/ SrvFlash /\ UNCHANGED notRender
  \/ ToggleBlackout /\ UNCHANGED notRender

SpecBlackout == Init /\ [][NextBlackout]_vars

\* SpecShutdown: main's loop and the render loop up to the end of shutdown.
\* The threads keep running; the user and the signals are under no obligation.
NextShutdown ==
  \/ MainTest /\ UNCHANGED notShutdown
  \/ MainKey /\ UNCHANGED notShutdown
  \/ MainSelector /\ UNCHANGED notShutdown
  \/ MainPoll /\ UNCHANGED notShutdown
  \/ MainPulse /\ UNCHANGED notShutdown
  \/ SignalHandler /\ UNCHANGED notShutdown
  \/ MainFinally /\ UNCHANGED notShutdown
  \/ MainJoinRender /\ UNCHANGED notShutdown
  \/ MainJoinControl /\ UNCHANGED notShutdown
  \/ RlSnapshot /\ UNCHANGED <<shutVars, histVars, notShutdown>>
  \/ RlCompute /\ UNCHANGED <<shutVars, histVars, notShutdown>>
  \/ RlIdentify /\ UNCHANGED <<shutVars, histVars, notShutdown>>
  \/ RlSendCounted /\ UNCHANGED notShutdown

SpecShutdown ==
  /\ Init
  /\ [][NextShutdown]_vars
  /\ WF_vars(MainSteps /\ UNCHANGED notShutdown)
  /\ WF_vars(RenderSteps /\ UNCHANGED notShutdown)

\* SpecLock: the three threads around the state mutex.
notLock == <<clockVars, stateVars, engVars, frameVars, histVars, renderVars,
             schedVars, serverVars, patVars, gpVars, parseVars, speedVars,
             shutVars, rtVars, fadeVars, loadVars>>
NextLock ==
  \/ ThBegin /\ UNCHANGED notLock
  \/ ThStep /\ UNCHANGED notLock

SpecLock == Init /\ [][NextLock]_vars

\* SpecRetarget: the transforms that expand a group into lights, applied to
\* one source event.
notRetarget == <<clockVars, stateVars, engVars, frameVars, histVars,
                 renderVars, schedVars, serverVars, patVars, gpVars, parseVars,
                 speedVars, shutVars, lockVars, fadeVars, loadVars>>
NextRetarget ==
  \/ RtNew /\ UNCHANGED notRetarget
  \/ RtSeq /\ UNCHANGED notRetarget
  \/ RtPick /\ UNCHANGED notRetarget
  \/ RtZone /\ UNCHANGED notRetarget
  \/ RtWave /\ UNCHANGED notRetarget
  \/ RtAutonomous /\ UNCHANGED notRetarget

SpecRetarget == Init /\ [][NextRetarget]_vars

\* SpecFade: the engine's operations and the fade-out command.
notFade == <<clockVars, stateVars, histVars, renderVars, schedVars,
             serverVars, patVars, gpVars, parseVars, speedVars, shutVars,
             lockVars, rtVars, loadVars>>
NextFade ==
  \/ EngSetPattern /\ UNCHANGED notEngine
  \/ EngNextPattern /\ UNCHANGED notEngine
  \/ EngPrevPattern /\ UNCHANGED notEngine
  \/ EngReload /\ UNCHANGED notEngine
  \/ EngSetPalette /\ UNCHANGED notEngine
  \/ EngFinish /\ UNCHANGED notFade
  \/ SrvFadeOut

SpecFade == Init /\ [][NextFade]_vars

\* SpecLoader: pattern files written, reloaded and validated.
notLoader == <<clockVars, stateVars, engVars, frameVars, histVars,
               renderVars, schedVars, serverVars, patVars, gpVars, parseVars,
               speedVars, shutVars, lockVars, rtVars, fadeVars>>
NextLoader ==
  \/ LdWrite /\ UNCHANGED notLoader
  \/ LdReload /\ UNCHANGED notLoader
  \/ LdValidate /\ UNCHANGED notLoader

SpecLoader == Init /\ [][NextLoader]_vars

\* ------------------------------------------------------- claims C1 .. C6

\* The last message the clock consumer finished was a pulse that started a bar.
BarStartPulseDone ==
  clk_pc = "idle" /\ last_op = "pulse" /\ tick_count = 0 /\ ui_beat = 1

\* C1: with queue_mode 1 or 2 a set_pattern request recorded with target bar
\* B + q is delivered by the pulse that starts that bar and by no earlier
\* one: the clock delivers only on a bar start at or after the target, and
\* once the pulse starting a bar at or after the target has been processed
\* the request is no longer outstanding.
C1_SwitchOnTargetBar ==
  /\ clk_pc = "deliver" => ui_beat = 1 /\ ui_bar >= target_bar
  /\ (BarStartPulseDone /\ lastReq # <<None, None>>) => ui_bar < lastReq[2]

\* C2: a pending request leaves the queue only by being delivered (the
\* clock clears the very request it handed to the engine) or by
\* set_queue_mode 0; it is never cleared undelivered.
C2_PendingNeverDropped ==
  [][(queued_pattern_index # None /\ queued_pattern_index' = None)
       => \/ queue_mode' = 0
          \/ /\ clk_pc = "clear"
             /\ queued_idx = queued_pattern_index
             /\ target_bar = queue_target_bar]_vars

\* C3: once set_queue_mode 0 has been handled nothing is pending and the
\* clock thread performs no queued pattern switch.
C3_NoSwitchAfterQueueOff ==
  /\ [](queue_mode = 0 =>
          queued_pattern_index = None /\ queue_target_bar = None)
  /\ [][(queue_mode = 0 /\ clk_pc = "deliver") => clk_pc' = "deliver"]_vars

ResetOps == {"qreset", "start", "continue", "songpos", "space", "sync"}

\* C4: every step that lowers the shared beat_position is one of the explicit
\* resets (start, continue, song position, keyboard reset, sync), so two
\* successive reads of it decrease only across such a reset.
C4_BeatPositionMonotone ==
  [][es_beat_position' < es_beat_position => last_op' \in ResetOps]_vars

\* C4 witness: the position has advanced through a completed beat.
C4_Witness ==
  last_op = "pulse" /\ clk_pc = "idle" /\ beat_count = 2 /\ tick_count = 1

\* C5: after a sync command the shared position is 0 and beat_count 1, and
\* n pulses later the published position is n / 24.
C5_SyncRestartsCount ==
  (sinceSync # None /\ clk_pc = "idle") =>
     /\ es_beat_position = sinceSync
     /\ sinceSync = 0 => es_beat_count = 1

\* C6: after a processed pulse the shared state has
\* beat_position = (beat_count - 1) + tick_count / 24, tick_count in 0..23
\* and beat_count >= 1; successive pulses advance the position by one tick
\* (so tick_count wraps and beat_count grows by one on every 24th); and
\* beat_position and beat_count are never out of step with each other.
C6_State ==
  /\ es_beat_count >= 1 =>
       es_beat_position \div TICKS_PER_BEAT = es_beat_count - 1
  /\ (clk_pc = "idle" /\ last_op \in {"pulse", "qreset"}) =>
       /\ tick_count \in 0..(TICKS_PER_BEAT - 1)
       /\ es_beat_count >= 1
       /\ es_beat_count = beat_count
       /\ es_beat_position * 1 =
            (es_beat_count - 1) * TICKS_PER_BEAT + tick_count

C6_PublishedPosition ==
  /\ []C6_State
  /\ [][(last_op = "pulse" /\ last_op' = "pulse"
           /\ es_beat_position' # es_beat_position)
          => es_beat_position' = es_beat_position + 1]_vars

\* C6 witness: a pulse completed a beat and the new beat is published.
C6_Witness ==
  /\ clk_pc = "idle" /\ last_op = "pulse"
  /\ tick_count = 0 /\ es_beat_count = 2 /\ es_beat_position = TICKS_PER_BEAT
\* ------------------------------------------------------ claims C7 .. C10

\* the frame used pattern and palette of configuration c, and nothing else
FrameFrom(c) ==
  IF c = NoSched THEN frame_pat = None /\ frame_pals = {}
  ELSE frame_pat = c.pat /\ frame_pals = {c.pal}

\* C7: every frame is computed from one scheduler whose pattern and palette
\* were committed together by one operation (never the previous pattern with
\* the new pattern's palette), and the scheduler reference is not replaced
\* between the renderer's None check and its use.
C7_FrameFromOneCommit ==
  /\ r_pc # "crashed"
  /\ ~r_replaced
  /\ r_pc = "done" => \E c \in commits : FrameFrom(c)

\* C7, the part about pattern and palette alone
C7_NoTornFrame ==
  r_pc = "done" => \E c \in commits : FrameFrom(c)
\* the render thread has computed the colours of a frame
FrameRendered == rl_pc \in {"snapshot2", "clear", "send"}

\* C8: while running is true the render loop keeps producing frames; an error
\* raised while evaluating the pattern, while applying a control request taken
\* from shared state, or while sending is recovered or counted inside the loop
\* and never ends the render thread.
C8_RenderThreadSurvives ==
  /\ rl_pc # "dead"
  /\ rl_pc = "stopped" => ~running

\* C9: a flash of duration d > 0 triggered at beat position b overrides the
\* pattern only until it expires: no frame rendered at a position >= b + d
\* shows the flash.
C9_FlashExpires ==
  (FrameRendered /\ frame_src = "flash")
    => beat_clock_pos < quick_action_start_beat + active_quick_action
\* the events active for light l at time t: those whose whole span contains
\* t and the earlier ones whose envelope tail has not ended
ActiveFor(l, t) ==
  {i \in DOMAIN sched_pattern :
     /\ sched_pattern[i].light = l
     /\ \/ Contains(sched_pattern[i], t)
        \/ /\ sched_pattern[i].envelope.has
           /\ TailActive(sched_pattern[i], t)}

\* the highest intensity among them, black if it is not perceptible
HighestActive(l, t) ==
  LET m == MaxOf({HapIntensity(sched_pattern[i], t) : i \in ActiveFor(l, t)})
  IN IF m >= PERCEPTIBLE THEN m ELSE 0

\* C10: in every frame and for every light the emitted intensity is the
\* maximum intensity over all events active for that light at the frame
\* time, tails of earlier events included; black only if none reaches 0.01.
C10_HighestTakesPrecedence ==
  sched_time # None =>
    \A l \in Lights : sched_emitted[l] = HighestActive(l, sched_time)
\* ----------------------------------------------------- claims C11 .. C20

\* the end of an event's envelope: whole.start + attack + decay
EnvelopeEnd(h) == h.start + h.envelope.attack + h.envelope.decay

\* the frame time lies in the tail of event h: after its slot, before the
\* end of its envelope
InTail(h, t) == h.envelope.has /\ h.end <= t /\ t < EnvelopeEnd(h)

\* C11: an event with attack + decay > duration that was rendered during its
\* slot is still tracked and rendered from its envelope in every later frame
\* with whole.end <= t < whole.start + attack + decay; its tracking entry is
\* not dropped before the envelope has ended.
C11_EnvelopeTailRendered ==
  \A i \in sched_rendered :
    InTail(sched_pattern[i], sched_time) =>
      /\ sched_active_events[sched_pattern[i].light] = i
      /\ HapIntensity(sched_pattern[i], sched_time) >= PERCEPTIBLE =>
           sched_emitted[sched_pattern[i].light]
             >= HapIntensity(sched_pattern[i], sched_time)
\* C12: an identify_light request is never lost: while its second has not
\* run out the request is still in shared state for the frames to blink the
\* light, even when it arrived while the renderer was expiring an earlier one.
C12_IdentifyNeverLost ==
  identify_live => identify_light_index # NoIndex
\* C13: while the control server is running the periodic status broadcast
\* goes on: a client connecting or disconnecting at any moment, or a failed
\* send to one client, never stops it.
C13_StatusLoopSurvives ==
  srv_running => bc_pc[StatusLoop] # "dead"

\* C14: a text message that is malformed JSON, has an unknown or missing
\* type, or lacks a field its type requires is answered on that connection
\* with a message of type "error", and the connection stays open.
C14_ProtocolErrorAnswered ==
  \A c \in Clients :
    last_msg[c] \in ProtocolErrors => reply[c] = "error" /\ c \in conn_open
\* the palette the precedence rule asks for: the override, else the current
\* pattern's declared default, else none
ExpectedPalette ==
  IF palette_override # None THEN palette_override
  ELSE IF pattern_names = <<>> THEN None
  ELSE DefaultPalette(pattern_names[current_pattern_index + 1])

\* C15: after any sequence of set_palette, set_pattern, next/prev and reload
\* operations the active palette is the override if one is set, otherwise
\* the current pattern's default, otherwise none; the scheduler in use
\* resolves colours against exactly that palette; and a pattern switch or a
\* reload leaves the override as it is.
C15_PalettePrecedence ==
  /\ [](eng_pc = "idle" =>
          /\ active_palette = ExpectedPalette
          /\ scheduler # NoSched => scheduler.pal = ExpectedPalette)
  /\ [][(eng_pc' # "idle" \/ eng_pc # "idle")
          => palette_override' = palette_override]_vars

\* an override set while pattern 1 was active is in force for pattern 2,
\* whose declared default it replaces
C15_Witness ==
  /\ eng_pc = "idle"
  /\ palette_override = 1
  /\ current_pattern_index = 1
  /\ pattern_names = <<1, 2>>
  /\ scheduler.pat = 2
  /\ scheduler.pal = 1
\* the name of the selected pattern
SelectedName ==
  IF pattern_names = <<>> THEN None
  ELSE pattern_names[current_pattern_index + 1]

\* C16: after a hot reload the selected pattern is the one with the same
\* name as before whenever that name is still in the reloaded table,
\* otherwise the first of the table; and rendering continues from a
\* scheduler for that pattern whose active-events tracker is empty.
C16_ReloadKeepsSelection ==
  /\ [][(eng_pc = "idle" /\ eng_pc' = "reload") =>
          IF \E i \in 1..Len(pattern_names') : pattern_names'[i] = SelectedName
          THEN SelectedName' = SelectedName
          ELSE current_pattern_index' = 0]_vars
  /\ [][(eng_pc = "reload" /\ eng_pc' = "idle") =>
          /\ current_pattern_index' = current_pattern_index
          /\ IF pattern_names' = <<>> THEN scheduler' = NoSched
             ELSE /\ scheduler'.pat = SelectedName'
                  /\ ~scheduler'.tracking]_vars

\* a reload has moved the selected pattern 1 to the second place of the
\* table while the scheduler in use was tracking events
C16_Witness ==
  /\ eng_pc = "reload"
  /\ pattern_names = <<2, 1>>
  /\ current_pattern_index = 1
  /\ scheduler.tracking
\* C17: every iteration of the render loop performs exactly one transport
\* send: an iteration that has begun reaches its send, and ends only through
\* it; the message carries exactly one entry for each of the num_lights
\* fixtures, also in the frames that follow a failed send.
C17_OneCompleteMessagePerFrame ==
  /\ [](rl_pc # "dead")
  /\ [][(rl_pc # "top" /\ rl_pc' = "top") => rl_pc = "send"]_vars
  /\ [][(rl_pc = "send" /\ rl_pc' = "top") => last_message' = Lights]_vars

\* C17, for the iterations that reach their send
C17_MessageComplete ==
  [][(rl_pc = "send" /\ rl_pc' = "top") => last_message' = Lights]_vars


\* ------------------------------------------------------ claims C18 .. C20

Range(haps) == {haps[i] : i \in 1..Len(haps)}

\* C18: when a window w1 inside a window w2 of the same cycle is queried, the
\* query returns exactly the events of the w2 query that overlap w1, with
\* the same whole and value and with part clipped to w1.
C18_WindowIndependent ==
  w2_span # NoSpan => Range(q_haps) = Range(FilterToSpan(w2_haps, q_span))

\* C19: every event a query over [s, e) returns has its part inside [s, e)
\* and inside its whole.
C19_PartWithinSpan ==
  \A i \in 1..Len(q_haps) :
    /\ Within(q_haps[i].part, q_span)
    /\ Within(q_haps[i].part, q_haps[i].whole)

Slot(h) == <<h.whole, h.part>>
Value(h) == h.value
CountOf(haps, F(_), x) == Cardinality({i \in 1..Len(haps) : F(haps[i]) = x})
SameBag(a, b, F(_)) ==
  \A x \in {F(h) : h \in Range(a) \cup Range(b)} :
    CountOf(a, F, x) = CountOf(b, F, x)
\* the last query was p.shuffle() over one full cycle
ShuffledCycle ==
  /\ transforms # <<>>
  /\ transforms[Len(transforms)] = "shuffle"
  /\ q_span = CycleSpan(IntCycle(q_span.start))
\* what p itself returns for the span of the last query
Unshuffled == Query(Len(transforms) - 1, q_span)

\* C20: p.shuffle() over a full cycle has the time slots of p and a
\* permutation of p's values, and a second query of the same cycle returns
\* the same events.
C20_ShufflePermutes ==
  ShuffledCycle =>
    /\ SameBag(q_haps, Unshuffled, Slot)
    /\ SameBag(q_haps, Unshuffled, Value)
    /\ w2_span = q_span => w2_haps = q_haps


\* ------------------------------------------------------ claims C21 .. C30

\* C27: a MIDI continue message resets only the tick counter: tick_count
\* becomes 0, beat_count is kept, and the published position is the start
\* of the current beat.
C27_ContinueKeepsBeat ==
  [][ClkContinue =>
       /\ tick_count' = 0
       /\ beat_count' = beat_count
       /\ es_beat_count' = beat_count
       /\ es_beat_position' = BeatPosition(beat_count, 0)]_vars

\* C28: while a quantized reset is pending, a pulse that does not complete a
\* beat publishes the next position and keeps the request; the first pulse
\* that completes a beat sets the position to 0 and beat_count to 1 and
\* consumes the request; a pulse without a pending request resets nothing.
C28_QuantizedReset ==
  /\ [][(ClkPulse /\ pending_reset /\ tick_count + 1 < TICKS_PER_BEAT) =>
          /\ pending_reset'
          /\ beat_count' = beat_count
          /\ es_beat_position' = BeatPosition(beat_count, tick_count + 1)]_vars
  /\ [][(ClkPulse /\ pending_reset /\ tick_count + 1 >= TICKS_PER_BEAT) =>
          /\ ~pending_reset'
          /\ tick_count' = 0
          /\ beat_count' = 1
          /\ es_beat_position' = 0
          /\ es_beat_count' = 1]_vars
  /\ [][(ClkPulse /\ ~pending_reset) =>
          /\ ~pending_reset'
          /\ beat_count' >= beat_count
          /\ es_beat_position' >= es_beat_position]_vars

\* the request was made in the middle of beat 2 and has just been consumed
C28_Witness ==
  last_op = "qreset" /\ ~pending_reset /\ beat_count = 1 /\ es_beat_position = 0


\* the last query was light("all").seq(slots = S) over one cycle
SeqOfAll ==
  gp_pattern.kind = "seq" /\ gp_pattern.group = "all" /\ gp_pattern.slots # None

\* C21: light("all").seq(slots = S) yields exactly S child events over the
\* cycle, each of duration 1 / S, each with a light_id of the context.
C21_SeqSlots ==
  SeqOfAll =>
    /\ Len(gp_haps) = gp_pattern.slots
    /\ \A i \in 1..Len(gp_haps) :
         /\ gp_haps[i].num_slots = gp_pattern.slots
         /\ gp_haps[i].light_id \in 0..(gp_ctx.num_lights - 1)

C23_PickHeldForOneBeat ==
  gp_pattern.kind = "pick" =>
    /\ Len(gp_haps) = FAST
    /\ \A i \in 1..Len(gp_haps) :
         /\ FAST * (gp_haps[i].whole.end - gp_haps[i].whole.start) = BeatLen
         /\ gp_haps[i].value.intensity = FULL
         /\ gp_haps[i].value.light_id = gp_haps[1].value.light_id


\* C26: intensity(v) multiplies the intensity of each event by v, so the
\* events of light("all").intensity(a).intensity(b) have intensity a * b.
C26_IntensityMultiplies ==
  gp_pattern.kind = "intensity" =>
    /\ gp_haps # <<>>
    /\ \A i \in 1..Len(gp_haps) :
         gp_haps[i].value.intensity * FULL = gp_pattern.a * gp_pattern.b


\* C24: light("all").envelope(attack=0.05, decay=1.0, sustain=0)
\* .color(flash="white", fade="red") rendered from beat 0: at beat 0.0 every
\* light is white at full intensity, at beat 4.1 every light is black.
C24_FlashThenBlack ==
  sched_pattern = AllEvents(FlashFade) =>
    /\ sched_time = 0 =>
         \A l \in Lights :
           sched_colors[l] = "white" /\ sched_emitted[l] = FULL * FULL
    /\ sched_time = FrameUnits + 1 =>
         \A l \in Lights : sched_colors[l] = "black" /\ sched_emitted[l] = 0

\* C25: an event with release r > 0 is rendered after its whole span ends:
\* at whole.end + x with 0 <= x < r, when no other event holds the light,
\* the emitted intensity is that of the release, sustain * (1 - x / r).
C25_ReleaseRendered ==
  \A i \in DOMAIN sched_pattern :
    LET h == sched_pattern[i]
        x == sched_time - h.end
    IN  (/\ h.envelope.release > 0
         /\ 0 <= x /\ x < h.envelope.release
         /\ \A j \in DOMAIN sched_pattern :
              sched_pattern[j].light = h.light => ~Contains(sched_pattern[j], sched_time))
        => sched_emitted[h.light] = h.intensity * ReleaseIntensity(h.envelope, x)

\* the runs of characters other than the space a notation is made of
RECURSIVE ChunksFrom(_, _, _)
ChunksFrom(s, chunks, current) ==
  LET closed == IF current # <<>> THEN Append(chunks, current) ELSE chunks IN
    IF s = <<>> THEN closed
    ELSE IF Head(s) = " " THEN ChunksFrom(Tail(s), closed, <<>>)
    ELSE ChunksFrom(Tail(s), chunks, Append(current, Head(s)))
Chunks(s) == ChunksFrom(s, <<>>, <<>>)

\* a word: a letter followed by letters and digits
IsWord(v) == v # <<>> /\ IsAlpha(v[1]) /\ \A k \in DOMAIN v : IsWordChar(v[k])

\* C29: parse_mini never fails, whatever the notation (a repeat count of zero
\* or one that is no number included): it returns a list of events, and every
\* word of the notation, known as a group or not, is in it as a group name
\* (group names are compared in lower case).
C29_ParseNeverFails ==
  parsed # NotParsed =>
    /\ parsed.error = "none"
    /\ \A c \in DOMAIN Chunks(notation) :
         IsWord(Chunks(notation)[c]) =>
           \E i \in DOMAIN parsed.events :
             parsed.events[i].group = LowerToken(Chunks(notation)[c])

\* a value: a decimal integer, a word or the rest
IsValue(v) == IsInt(v) \/ IsWord(v) \/ v = <<"~">>
\* where the repeat operator of an element is (0: the element has none)
StarOf(c) ==
  IF \E k \in DOMAIN c : c[k] = "*"
    THEN CHOOSE k \in DOMAIN c : c[k] = "*" /\ \A j \in 1..(k - 1) : c[j] # "*"
    ELSE 0
ValueOf(c) == IF StarOf(c) = 0 THEN c ELSE SubSeq(c, 1, StarOf(c) - 1)
CountText(c) == SubSeq(c, StarOf(c) + 1, Len(c))
CountOfElement(c) == IF StarOf(c) = 0 THEN 1 ELSE IntOf(CountText(c))
\* an element: a value, optionally followed by *N with N >= 1
IsElement(c) ==
  /\ IsValue(ValueOf(c))
  /\ StarOf(c) # 0 => IsInt(CountText(c)) /\ IntOf(CountText(c)) >= 1
WellFormed(s) ==
  Chunks(s) # <<>> /\ \A c \in DOMAIN Chunks(s) : IsElement(Chunks(s)[c])

\* the value of each slot, in order: N times the value of an element with *N
RECURSIVE SlotValues(_)
SlotValues(chunks) ==
  IF chunks = <<>> THEN <<>>
  ELSE [i \in 1..CountOfElement(Head(chunks)) |-> ValueOf(Head(chunks))]
       \o SlotValues(Tail(chunks))

\* event e has value v
HasValue(e, v) ==
  IF v = <<"~">> THEN e.is_rest /\ e.light_id = None /\ e.group = NoGroup
  ELSE IF IsInt(v) THEN ~e.is_rest /\ e.light_id = IntOf(v) /\ e.group = NoGroup
  ELSE ~e.is_rest /\ e.light_id = None /\ e.group = LowerToken(v)

\* C30: for a notation of whitespace-separated elements, each a value
\* optionally followed by *N with N >= 1, the parsed events (rests included)
\* tile [0, 1): there is one event per slot, the i-th from (i - 1) / total_slots
\* to i / total_slots, total_slots being the sum of the elements' slot counts
\* (1, or N with *N), and an element with *N gives N consecutive events of
\* its value.
C30_EventsTile ==
  (parsed # NotParsed /\ WellFormed(notation)) =>
    LET want == SlotValues(Chunks(notation))
        total_slots == Len(want)
        events == parsed.events
    IN /\ parsed.error = "none"
       /\ Len(events) = total_slots
       /\ \A i \in 1..total_slots :
            /\ events[i].start.num * total_slots = (i - 1) * events[i].start.den
            /\ events[i].end.num * total_slots = i * events[i].end.den
            /\ HasValue(events[i], want[i])

\* "0*2 a" parsed: two events of light 0 and one of group a, a third each
C30_Witness ==
  /\ notation = <<"0", "*", "2", " ", "a">>
  /\ parsed.error = "none"
  /\ Len(parsed.events) = 3
  /\ parsed.events[2].light_id = 0
  /\ parsed.events[3].group = <<"a">>

\* ------------------------------------------------------ claims C31 .. C39

\* C31: for every pattern p, integer k >= 1 and query window, p.fast(k)
\* followed by fast(1 / k) returns exactly the events p returns (same whole,
\* part and value), and slow(k) returns what fast(1 / k) returns.
C31_FastRoundTrip ==
  sp_span # NoWindow => sp_round = sp_plain /\ sp_slow = sp_inverse

\* C32: when set_palette changes the active palette while an event is
\* mid-envelope or in its tail (the scheduler tracks it), every frame begun
\* after the change resolves the event's PaletteRefs against the new active
\* palette, never against the one that was active when the event started.
C32_TailUsesNewPalette ==
  (/\ committed.tracking
   /\ eng_pc = "idle"
   /\ commits = {committed}
   /\ r_pc \in {"resolve1", "resolve2", "done"})
    => frame_pals \subseteq {active_palette}

\* a frame has resolved its events after the override was set on a scheduler
\* that tracked an event started under the pattern's own palette
C32_Witness ==
  /\ committed.tracking
  /\ eng_pc = "idle"
  /\ commits = {committed}
  /\ r_pc = "done"
  /\ palette_override # None
  /\ palette_override # DefaultPalette(committed.pat)
  /\ frame_pals = {palette_override}

\* C33: while the blackout flag is set the engine's compute_colors returns
\* black for every light, whatever quick action is active and whatever
\* pattern or palette operation came in between; with the flag off again it
\* returns the quick action if one is active, otherwise the pattern.
C33_BlackoutIsBlack ==
  [][RlCompute =>
       /\ blackout => rl_pc' = "snapshot2" /\ frame_src' = "black"
       /\ (~blackout /\ rl_pc' = "snapshot2") =>
            frame_src' = IF active_quick_action # None THEN "flash"
                         ELSE IF scheduler = NoSched THEN "black"
                         ELSE "pattern"]_vars

\* a frame computed black under blackout, with a flash active and a pattern
\* switch under way
C33_Witness ==
  /\ blackout
  /\ active_quick_action # None
  /\ scheduler # NoSched
  /\ eng_pc = "rebuild"
  /\ rl_pc = "snapshot2"
  /\ frame_src = "black"

\* C34: once running is false the render loop sends at most the frame in
\* progress, the clock loop processes no further pulse, and shutdown, whose
\* joins are bounded, comes to its end.
C34_ShutdownStops ==
  /\ [](stop_sends <= 1 /\ stop_pulses = 0)
  /\ (~running) ~> (main_pc = "done")

\* C35: no execution of the clock, render and control threads deadlocks on
\* the state mutex: no thread comes to acquire it while holding it (the
\* pattern-change callback is never invoked inside a critical section), no
\* critical section contains pattern evaluation, a transport send or network
\* I/O, and a thread that waits for the mutex waits for one that can go on.
C35_NoMutexDeadlock ==
  \A t \in Threads :
    /\ NextStep(t) = "acquire" => lock_owner # t
    /\ lock_owner = t => NextStep(t) \in {"access", "release"}
    /\ (NextStep(t) = "acquire" /\ lock_owner # "nobody") =>
         NextStep(lock_owner) \in {"access", "release"}

\* main is inside the callback's critical section while it delivers a queued
\* pattern, and the render and control threads both wait for the mutex
C35_Witness ==
  /\ th_script["main"] = DeliverQueued
  /\ th_pos["main"] = 5
  /\ lock_owner = "main"
  /\ NextStep("render") = "acquire"
  /\ NextStep("control") = "acquire"

\* C36: seq, pick, zone, wave and autonomous, when they expand a group into
\* lights, leave the other fields of the value as they were: every event
\* produced has the color, color_ref, intensity and envelope of the source
\* event, and is rendered in the colour the source event would be, whatever
\* the palette.
C36_RetargetKeepsValue ==
  rt_out.error = "none" =>
    \A k \in 1..Len(rt_out.events) :
      LET v == rt_out.events[k]
      IN  /\ v.color = rt_value.color
          /\ v.color_ref = rt_value.color_ref
          /\ v.intensity = rt_value.intensity
          /\ v.envelope = rt_value.envelope
          /\ \A palette \in {NoPalette, <<"blue">>} :
               resolve_color(v.color, v.color_ref, palette)
                 = resolve_color(rt_value.color, rt_value.color_ref, palette)

\* C38: for min >= 1, max >= min and a non-empty group, pick never fails and
\* replaces the group's event by between 1 and |group| events on distinct
\* lights of the group, also when min or max exceeds the size of the group.
C38_PickClamps ==
  (/\ rt_op.kind = "pick"
   /\ rt_op.min_n >= 1
   /\ rt_op.max_n >= rt_op.min_n
   /\ ResolveGroup(rt_ctx, rt_value.group) # <<>>) =>
    LET lights == ResolveGroup(rt_ctx, rt_value.group)
        picked == rt_out.events
    IN  /\ rt_out.error = "none"
        /\ Len(picked) \in 1..Len(lights)
        /\ \A k \in 1..Len(picked) : picked[k].light_id \in Elements(lights)
        /\ \A j, k \in 1..Len(picked) :
             picked[j].light_id = picked[k].light_id => j = k

\* C37: whenever the active pattern changes (set_pattern by name or index,
\* next, prev, the delivery of a queued pattern, a reload that changes the
\* selected pattern) an active fade-out is cancelled, and a fade stays
\* active as long as no operation changes the pattern.
C37_PatternChangeCancelsFade ==
  [][/\ scheduler'.pat # scheduler.pat => ~fade_active'
     /\ (fade_active /\ ~fade_active') => (eng_pc = "rebuild" /\ eng_pc' = "idle")
    ]_vars

\* C39: every entry of the engine's pattern table is a Pattern: a file whose
\* body evaluates to something else (a number, a string) fails to load and
\* is skipped, and the loader accepts a body exactly when validate_pattern
\* accepts it.
C39_TableHoldsPatterns ==
  /\ \A f \in 1..NumFiles : patterns_table[f] \in {"absent", "LightPattern"}
  /\ validated.valid = (execute_pattern_body(validated.body).error = "none")

====
